---------------------------- MODULE Spec2Model ----------------------------
(***************************************************************************)
(* A model of wealthgrabber's data transformation pipeline:                *)
(*   - the two security resolvers and their per-invocation cache           *)
(*     (activities.py _get_security_name, assets.py _get_security_info),   *)
(*   - the account filters of accounts.py,                                 *)
(*   - the report functions get_activities_data and get_assets_data.       *)
(*                                                                         *)
(* Python strings are sequences of one-character strings, so that          *)
(* lower(), upper(), slicing and substring tests are computed and not      *)
(* assumed.  A Python dict is a function whose DOMAIN is its key set; an   *)
(* absent key is a key outside the DOMAIN.  Money amounts are integers     *)
(* (cents); a quotient is kept as an exact fraction.                       *)
(***************************************************************************)
EXTENDS Integers, Sequences, FiniteSets, TLC

VARIABLES
    cache,          \* resolver level: the cache dict the resolve calls share
    cache_kind,     \* "name" (activities.py cache) or "info" (assets.py cache)
    market_calls,   \* security id -> number of get_security_market_data calls
    resolved,       \* what the most recent resolve call did and returned
    world,          \* the upstream data the client's fetch capabilities return
    accounts_out,   \* the most recent get_accounts_data call and its result
    command,        \* report level: the report function this client is used for
    report_out,     \* the most recent get_*_data call and its outcome
    activity_security_cache,  \* the security_cache dict of the last get_activities_data
    asset_security_cache,     \* the security_cache dict of the last get_assets_data
    printed,        \* print level: the most recent print_* call and what it printed
    auth            \* get_authenticated_client: where it is, its locals, the keyring

resolver_vars == <<cache, cache_kind, market_calls, resolved>>

accounts_vars == <<accounts_out>>

report_vars == <<command, report_out, activity_security_cache, asset_security_cache,
                 printed, auth>>

vars == <<cache, cache_kind, market_calls, resolved, world, accounts_out,
          command, report_out, activity_security_cache, asset_security_cache,
          printed, auth>>

(***************************************************************************)
(* Strings and dicts                                                       *)
(***************************************************************************)
EmptyStr == <<>>

EmptyDict == <<>>

\* dict.get(k, default)
Get(d, k, default) == IF k \in DOMAIN d THEN d[k] ELSE default

\* Python truth value of a dict, and of a string
TruthyDict(d) == DOMAIN d # {}

TruthyStr(s) == s # EmptyStr

\* d[k] = v on a dict
Put(d, k, v) == [x \in (DOMAIN d) \cup {k} |-> IF x = k THEN v ELSE d[x]]

\* A local variable: TheOnly({e : x \in {v}}) is e with x standing for the
\* value of v, which is computed once however often e reads x.
TheOnly(S) == CHOOSE x \in S : TRUE

SEC_1A == <<"s", "e", "c", "-", "s", "-", "1", "a">>

SEC_2B == <<"s", "e", "c", "-", "s", "-", "2", "b">>

STR_XEQT == <<"X", "E", "Q", "T">>

STR_ISHARES == <<"i", "S", "h", "a", "r", "e", "s">>

STR_NA == <<"N", "/", "A">>

STR_UNKNOWN == <<"U", "n", "k", "n", "o", "w", "n">>

\* the security identifiers a record may carry; the empty one is an absent id
SecurityIds == {EmptyStr, SEC_1A, SEC_2B}

(***************************************************************************)
(* The external capability get_security_market_data: it raises, returns    *)
(* None, or returns a dict that may hold a "stock" dict that may hold      *)
(* "symbol" and "name".                                                    *)
(***************************************************************************)
StockSymbols == {EmptyStr, STR_XEQT}

StockNames == {EmptyStr, STR_ISHARES}

StockRecords ==
    {EmptyDict}
    \cup {[symbol |-> s] : s \in StockSymbols}
    \cup {[name |-> n] : n \in StockNames}
    \cup {[symbol |-> s, name |-> n] : s \in StockSymbols, n \in StockNames}

MarketDicts == {EmptyDict} \cup {[stock |-> s] : s \in StockRecords}

MarketResponses ==
    {[kind |-> "raise", data |-> EmptyDict], [kind |-> "none", data |-> EmptyDict]}
    \cup {[kind |-> "dict", data |-> d] : d \in MarketDicts}

RaiseResponse == [kind |-> "raise", data |-> EmptyDict]

\* ws.get_security_market_data(security_id, use_cache=False); an identifier
\* the upstream does not know is an error of the call
get_security_market_data(ws, security_id) ==
    IF security_id \in DOMAIN ws.market THEN ws.market[security_id] ELSE RaiseResponse

\* `market_data and market_data.get("stock")`
HasStock(resp) ==
    /\ resp.kind = "dict"
    /\ TruthyDict(resp.data)
    /\ "stock" \in DOMAIN resp.data
    /\ TruthyDict(resp.data.stock)

\* _get_security_name with the cache write left out when the lookup gave no
\* stock record (the fallback is returned but not remembered)
_get_security_name_forgets_fallback(ws, security_id, c) ==
    IF security_id \in DOMAIN c
    THEN [ret |-> c[security_id], cache |-> c, calls |-> <<>>, raised |-> FALSE]
    ELSE LET called == TruthyStr(security_id)
             resp == get_security_market_data(ws, security_id)
             found == called /\ resp.kind # "raise" /\ HasStock(resp)
             stock == resp.data.stock
             symbol == Get(stock, "symbol", EmptyStr)
             stock_name == Get(stock, "name", EmptyStr)
             name == IF found
                     THEN IF TruthyStr(symbol) THEN symbol
                          ELSE IF TruthyStr(stock_name) THEN stock_name
                          ELSE security_id
                     ELSE security_id
         IN  [ret |-> name,
              cache |-> IF found THEN Put(c, security_id, name) ELSE c,
              calls |-> IF called THEN <<security_id>> ELSE <<>>,
              raised |-> FALSE]

\* _get_security_name reading only the symbol: `stock.get("symbol") or security_id`
_get_security_name_symbol_only(ws, security_id, c) ==
    IF security_id \in DOMAIN c
    THEN [ret |-> c[security_id], cache |-> c, calls |-> <<>>, raised |-> FALSE]
    ELSE LET called == TruthyStr(security_id)
             resp == get_security_market_data(ws, security_id)
             stock == resp.data.stock
             symbol == Get(stock, "symbol", EmptyStr)
             name == IF called /\ resp.kind # "raise" /\ HasStock(resp)
                     THEN IF TruthyStr(symbol) THEN symbol ELSE security_id
                     ELSE security_id
         IN  [ret |-> name,
              cache |-> Put(c, security_id, name),
              calls |-> IF called THEN <<security_id>> ELSE <<>>,
              raised |-> FALSE]

\* _get_security_name without the try/except around the lookup: an error of
\* get_security_market_data leaves the function
_get_security_name_unguarded(ws, security_id, c) ==
    IF security_id \in DOMAIN c
    THEN [ret |-> c[security_id], cache |-> c, calls |-> <<>>, raised |-> FALSE]
    ELSE LET called == TruthyStr(security_id)
             resp == get_security_market_data(ws, security_id)
             stock == resp.data.stock
             symbol == Get(stock, "symbol", EmptyStr)
             stock_name == Get(stock, "name", EmptyStr)
             name == IF called /\ HasStock(resp)
                     THEN IF TruthyStr(symbol) THEN symbol
                          ELSE IF TruthyStr(stock_name) THEN stock_name
                          ELSE security_id
                     ELSE security_id
         IN  IF called /\ resp.kind = "raise"
             THEN [ret |-> security_id, cache |-> c, calls |-> <<security_id>>,
                   raised |-> TRUE]
             ELSE [ret |-> name,
                   cache |-> Put(c, security_id, name),
                   calls |-> IF called THEN <<security_id>> ELSE <<>>,
                   raised |-> FALSE]

(***************************************************************************)
(* activities.py _get_security_name.  The result records the value         *)
(* returned, the cache after the call, the external calls made (a sequence *)
(* of ids) and whether an exception left the function.                     *)
(***************************************************************************)
_get_security_name(ws, security_id, c) ==
    IF security_id \in DOMAIN c
    THEN [ret |-> c[security_id], cache |-> c, calls |-> <<>>, raised |-> FALSE]
    ELSE LET called == TruthyStr(security_id)
             resp == get_security_market_data(ws, security_id)
             stock == resp.data.stock
             symbol == Get(stock, "symbol", EmptyStr)
             stock_name == Get(stock, "name", EmptyStr)
             name == IF called /\ resp.kind # "raise" /\ HasStock(resp)
                     THEN IF TruthyStr(symbol) THEN symbol
                          ELSE IF TruthyStr(stock_name) THEN stock_name
                          ELSE security_id
                     ELSE security_id
         IN  [ret |-> name,
              cache |-> Put(c, security_id, name),
              calls |-> IF called THEN <<security_id>> ELSE <<>>,
              raised |-> FALSE]

\* _get_security_info with the cache write inside `if security_id:`, so that
\* the result for an empty identifier is returned but not cached
_get_security_info_skips_empty_id(ws, security_id, c) ==
    IF security_id \in DOMAIN c
    THEN [ret |-> c[security_id], cache |-> c, calls |-> <<>>, raised |-> FALSE]
    ELSE LET called == TruthyStr(security_id)
             resp == get_security_market_data(ws, security_id)
             stock == resp.data.stock
             symbol == Get(stock, "symbol", STR_NA)
             pair == IF ~called THEN <<STR_NA, STR_UNKNOWN>>
                     ELSE IF resp.kind = "raise" THEN <<security_id, security_id>>
                     ELSE IF HasStock(resp) THEN <<symbol, Get(stock, "name", symbol)>>
                     ELSE <<STR_NA, STR_UNKNOWN>>
         IN  [ret |-> pair,
              cache |-> IF called THEN Put(c, security_id, pair) ELSE c,
              calls |-> IF called THEN <<security_id>> ELSE <<>>,
              raised |-> FALSE]

(***************************************************************************)
(* assets.py _get_security_info: returns the pair (symbol, name).          *)
(***************************************************************************)
_get_security_info(ws, security_id, c) ==
    IF security_id \in DOMAIN c
    THEN [ret |-> c[security_id], cache |-> c, calls |-> <<>>, raised |-> FALSE]
    ELSE LET called == TruthyStr(security_id)
             resp == get_security_market_data(ws, security_id)
             stock == resp.data.stock
             symbol == Get(stock, "symbol", STR_NA)
             pair == IF ~called THEN <<STR_NA, STR_UNKNOWN>>
                     ELSE IF resp.kind = "raise" THEN <<security_id, security_id>>
                     ELSE IF HasStock(resp) THEN <<symbol, Get(stock, "name", symbol)>>
                     ELSE <<STR_NA, STR_UNKNOWN>>
         IN  [ret |-> pair,
              cache |-> Put(c, security_id, pair),
              calls |-> IF called THEN <<security_id>> ELSE <<>>,
              raised |-> FALSE]

(***************************************************************************)
(* str.lower(), str.upper(), slicing and the substring test `sub in s`     *)
(***************************************************************************)
UPPER == <<"A", "B", "C", "D", "E", "F", "G", "H", "I", "J", "K", "L", "M", "N", "O", "P", "Q", "R", "S", "T", "U", "V", "W", "X", "Y", "Z">>

LOWER == <<"a", "b", "c", "d", "e", "f", "g", "h", "i", "j", "k", "l", "m", "n", "o", "p", "q", "r", "s", "t", "u", "v", "w", "x", "y", "z">>

\* the letters' images under lower() and upper()
LowerOf == [ch \in {UPPER[i] : i \in 1..Len(UPPER)} |->
               LOWER[CHOOSE i \in 1..Len(UPPER) : UPPER[i] = ch]]

UpperOf == [ch \in {LOWER[i] : i \in 1..Len(LOWER)} |->
               UPPER[CHOOSE i \in 1..Len(LOWER) : LOWER[i] = ch]]

LowerChar(ch) == IF ch \in DOMAIN LowerOf THEN LowerOf[ch] ELSE ch

UpperChar(ch) == IF ch \in DOMAIN UpperOf THEN UpperOf[ch] ELSE ch

lower(s) == [i \in 1..Len(s) |-> LowerChar(s[i])]

upper(s) == [i \in 1..Len(s) |-> UpperChar(s[i])]

\* a slice that cuts nothing off
Prefix_uncut(s, n) == s

\* s[:n] for n >= 0
Prefix(s, n) == SubSeq(s, 1, IF n < Len(s) THEN n ELSE Len(s))

\* sub in s
Contains(s, sub) ==
    \E i \in 0..(Len(s) - Len(sub)) : SubSeq(s, i + 1, i + Len(sub)) = sub

STR_CAD == <<"C", "A", "D">>

STR_USD == <<"U", "S", "D">>

(***************************************************************************)
(* accounts.py                                                             *)
(***************************************************************************)
STR_UNKNOWN_ACCOUNT == <<"U", "n", "k", "n", "o", "w", "n", " ", "A", "c", "c", "o", "u", "n", "t">>

\* _extract_account_value with a truthy default amount: `.get("amount", 1)`
_extract_account_value_default_one(account) ==
    LET financials == Get(account, "financials", EmptyDict)
        net_liq == Get(Get(financials, "currentCombined", EmptyDict),
                       "netLiquidationValue", EmptyDict)
    IN  [value |-> Get(net_liq, "amount", 1),
         currency |-> Get(net_liq, "currency", STR_CAD)]

\* _extract_account_value: (value, currency) of an account dict
_extract_account_value(account) ==
    LET financials == Get(account, "financials", EmptyDict)
        net_liq == Get(Get(financials, "currentCombined", EmptyDict),
                       "netLiquidationValue", EmptyDict)
    IN  [value |-> Get(net_liq, "amount", 0),
         currency |-> Get(net_liq, "currency", STR_CAD)]

non_liquid_keywords ==
    << <<"r", "r", "s", "p">>,
       <<"l", "i", "r", "a">>,
       <<"p", "r", "i", "v", "a", "t", "e", " ", "e", "q", "u", "i", "t", "y">>,
       <<"p", "r", "i", "v", "a", "t", "e", " ", "c", "r", "e", "d", "i", "t">> >>

\* _is_non_liquid_account without the lower(): a case-sensitive test
_is_non_liquid_account_case_sensitive(description) ==
    \E k \in 1..Len(non_liquid_keywords) :
        Contains(description, non_liquid_keywords[k])

_is_non_liquid_account(description) ==
    LET lowered == lower(description)
    IN  \E k \in 1..Len(non_liquid_keywords) :
            Contains(lowered, non_liquid_keywords[k])

\* _should_include_account with the not_liquid test inverted
_should_include_account_inverted(is_non_liquid, liquid_only, not_liquid) ==
    IF liquid_only /\ is_non_liquid THEN FALSE
    ELSE IF not_liquid /\ is_non_liquid THEN FALSE
    ELSE TRUE

_should_include_account(is_non_liquid, liquid_only, not_liquid) ==
    IF liquid_only /\ is_non_liquid THEN FALSE
    ELSE IF not_liquid /\ ~is_non_liquid THEN FALSE
    ELSE TRUE

\* the loop of get_accounts_data over accounts[i..]; `valued` logs the
\* accounts whose value was extracted, in order
RECURSIVE AccountsLoop(_, _, _, _, _)
AccountsLoop(accounts, i, show_zero_balances, liquid_only, not_liquid) ==
    IF i > Len(accounts) THEN [result |-> <<>>, valued |-> <<>>]
    ELSE LET account == accounts[i]
             description == Get(account, "description", STR_UNKNOWN_ACCOUNT)
             number == Get(account, "number", STR_NA)
             is_non_liquid == _is_non_liquid_account(description)
             rest == AccountsLoop(accounts, i + 1, show_zero_balances,
                                  liquid_only, not_liquid)
             vc == _extract_account_value(account)
         IN  IF ~_should_include_account(is_non_liquid, liquid_only, not_liquid)
             THEN rest
             ELSE IF vc.value = 0 /\ ~show_zero_balances
             THEN [rest EXCEPT !.valued = <<i>> \o @]
             ELSE [result |-> << [description |-> description,
                                  number |-> number,
                                  value |-> vc.value,
                                  currency |-> vc.currency] >> \o rest.result,
                   valued |-> <<i>> \o rest.valued]

\* no account id (an absent id, None, ""): falsy and equal to no account's id
NoAccount == ""

\* which fetches of the client raise: ws.get_accounts(),
\* ws.get_identity_positions(...) and ws.get_activities(account_id) for the
\* listed account ids.  A client that says nothing of it raises nowhere.
NoFailure ==
    [get_accounts |-> FALSE, get_identity_positions |-> FALSE, get_activities |-> {}]

RaisesOn(ws) == IF "raises" \in DOMAIN ws THEN ws.raises ELSE NoFailure

\* one call of a fetch: the capability, and the account id it was given
Fetch(capability, account_id) == [capability |-> capability, account_id |-> account_id]

\* the calls of the fetches are kept, in order, as `fetches`
get_accounts_data(ws, show_zero_balances, liquid_only, not_liquid) ==
    IF RaisesOn(ws).get_accounts
    THEN [result |-> <<>>, valued |-> <<>>, raised |-> TRUE,
          fetches |-> <<Fetch("get_accounts", NoAccount)>>]
    ELSE TheOnly({
             [result |-> r.result, valued |-> r.valued, raised |-> FALSE,
              fetches |-> <<Fetch("get_accounts", NoAccount)>>] :
             r \in {IF ws.accounts = <<>> THEN [result |-> <<>>, valued |-> <<>>]
                    ELSE AccountsLoop(ws.accounts, 1, show_zero_balances, liquid_only,
                                      not_liquid)}})

(***************************************************************************)
(* models.py PositionData and assets.py.  Account ids are opaque strings;  *)
(* "" stands for an absent or None id (both are falsy and equal to no id   *)
(* of an account).  None, where a display string may stand, is a value     *)
(* that is no sequence of characters.                                      *)
(***************************************************************************)
None == <<"None">>

\* a test that looks at the first owning account only
_position_has_account_first_only(position, account_id) ==
    LET accounts == Get(position, "accounts", <<>>)
    IN  /\ accounts # <<>>
        /\ "id" \in DOMAIN accounts[1]
        /\ accounts[1].id = account_id

_position_has_account(position, account_id) ==
    LET accounts == Get(position, "accounts", <<>>)
    IN  \E i \in DOMAIN accounts :
            "id" \in DOMAIN accounts[i] /\ accounts[i].id = account_id

_get_position_account_ids(position) ==
    LET accounts == Get(position, "accounts", <<>>)
        ids == [i \in DOMAIN accounts |-> Get(accounts[i], "id", NoAccount)]
    IN  SelectSeq(ids, LAMBDA x : x # NoAccount)

\* `(pnl / book_value * 100) if book_value != 0 else 0.0`, as an exact fraction
pnl_pct_unscaled(pnl, book_value) ==
    IF book_value # 0 THEN [num |-> pnl, den |-> book_value]
    ELSE [num |-> 0, den |-> 1]

pnl_pct_of(pnl, book_value) ==
    IF book_value # 0 THEN [num |-> pnl * 100, den |-> book_value]
    ELSE [num |-> 0, den |-> 1]

\* _get_position_data with the literal "CAD" for an absent value currency
_get_position_data_default_cad(ws, position, security_cache, currency) ==
    LET security == Get(position, "security", EmptyDict)
        security_id == Get(security, "id", EmptyStr)
        total_val == Get(position, "totalValue", EmptyDict)
        market_value == Get(total_val, "amount", 0)
        book_val == Get(position, "bookValue", EmptyDict)
        book_value == Get(book_val, "amount", 0)
        pnl == market_value - book_value
    IN  TheOnly({
            [data |-> [symbol |-> info.ret[1],
                       name |-> Prefix(info.ret[2], 30),
                       quantity |-> Get(position, "quantity", 0),
                       market_value |-> market_value,
                       book_value |-> book_value,
                       currency |-> Get(total_val, "currency", STR_CAD),
                       pnl |-> pnl,
                       pnl_pct |-> pnl_pct_of(pnl, book_value),
                       account_label |-> None],
             cache |-> info.cache,
             calls |-> info.calls,
             raised |-> info.raised] :
            info \in {_get_security_info(ws, security_id, security_cache)}})

_get_position_data(ws, position, security_cache, currency) ==
    LET security == Get(position, "security", EmptyDict)
        security_id == Get(security, "id", EmptyStr)
        total_val == Get(position, "totalValue", EmptyDict)
        market_value == Get(total_val, "amount", 0)
        book_val == Get(position, "bookValue", EmptyDict)
        book_value == Get(book_val, "amount", 0)
        pnl == market_value - book_value
    IN  TheOnly({
            [data |-> [symbol |-> info.ret[1],
                       name |-> Prefix(info.ret[2], 30),
                       quantity |-> Get(position, "quantity", 0),
                       market_value |-> market_value,
                       book_value |-> book_value,
                       currency |-> Get(total_val, "currency", currency),
                       pnl |-> pnl,
                       pnl_pct |-> pnl_pct_of(pnl, book_value),
                       account_label |-> None],
             cache |-> info.cache,
             calls |-> info.calls,
             raised |-> info.raised] :
            info \in {_get_security_info(ws, security_id, security_cache)}})

_build_account_label(account) ==
    Get(account, "description", STR_UNKNOWN) \o <<" ", "(">>
        \o Get(account, "number", STR_NA) \o <<")">>

\* `[... for pos in positions]` with _get_position_data on each, the cache
\* passed from one to the next; account_label is what the caller assigns to
\* each PositionData (None: it assigns nothing).  An exception ends the loop.
RECURSIVE PositionsLoop(_, _, _, _, _, _)
PositionsLoop(ws, positions, i, security_cache, currency, account_label) ==
    IF i > Len(positions)
    THEN [result |-> <<>>, cache |-> security_cache, calls |-> <<>>, raised |-> FALSE]
    ELSE TheOnly({
             IF d.raised
             THEN [result |-> <<>>, cache |-> d.cache, calls |-> d.calls, raised |-> TRUE]
             ELSE TheOnly({
                      [result |-> <<[d.data EXCEPT !.account_label = account_label]>>
                                      \o rest.result,
                       cache |-> rest.cache,
                       calls |-> d.calls \o rest.calls,
                       raised |-> rest.raised] :
                      rest \in {PositionsLoop(ws, positions, i + 1, d.cache, currency,
                                              account_label)}}) :
             d \in {_get_position_data(ws, positions[i], security_cache, currency)}})

\* positions_by_account[acc_id]: a position once for each time the id is
\* among its account ids
RECURSIVE PositionsOfAccount(_, _, _)
PositionsOfAccount(positions, i, acc_id) ==
    IF i > Len(positions) THEN <<>>
    ELSE LET ids == _get_position_account_ids(positions[i])
             n == Cardinality({k \in DOMAIN ids : ids[k] = acc_id})
         IN  [k \in 1..n |-> positions[i]] \o PositionsOfAccount(positions, i + 1, acc_id)

RECURSIVE GroupedLoop(_, _, _, _, _, _)
GroupedLoop(ws, positions, accounts, a, security_cache, currency) ==
    IF a > Len(accounts)
    THEN [result |-> <<>>, cache |-> security_cache, calls |-> <<>>, raised |-> FALSE]
    ELSE LET acc_id == Get(accounts[a], "id", NoAccount)
             acc_positions == PositionsOfAccount(positions, 1, acc_id)
             acc_label == _build_account_label(accounts[a])
         IN  TheOnly({
                 IF here.raised THEN here
                 ELSE TheOnly({
                          [result |-> here.result \o rest.result,
                           cache |-> rest.cache,
                           calls |-> here.calls \o rest.calls,
                           raised |-> rest.raised] :
                          rest \in {GroupedLoop(ws, positions, accounts, a + 1,
                                                here.cache, currency)}}) :
                 here \in {PositionsLoop(ws, acc_positions, 1, security_cache, currency,
                                         acc_label)}})

_get_positions_by_account_grouped(ws, positions, accounts, security_cache, currency) ==
    GroupedLoop(ws, positions, accounts, 1, security_cache, currency)

_filter_positions_by_account(positions, account_id) ==
    SelectSeq(positions, LAMBDA p : _position_has_account(p, account_id))

_get_accounts_for_assets(ws, account_id) ==
    IF account_id # NoAccount
    THEN SelectSeq(ws.accounts, LAMBDA a : "id" \in DOMAIN a /\ a.id = account_id)
    ELSE ws.accounts

\* `security_cache: dict[str, tuple[str, str]] = {}` of get_assets_data
assets_security_cache_new == EmptyDict

\* a return before the cache is made
ReturnedEarly ==
    [result |-> <<>>, cache |-> EmptyDict, calls |-> <<>>, raised |-> FALSE,
     cached |-> FALSE, fetches |-> <<Fetch("get_identity_positions", NoAccount)>>]

\* a filter that lets a position without gain or loss through
ApplyPnlFilter_not_strict(position_data, pnl_filter) ==
    IF pnl_filter = "profit" THEN SelectSeq(position_data, LAMBDA pos : pos.pnl >= 0)
    ELSE IF pnl_filter = "loss" THEN SelectSeq(position_data, LAMBDA pos : pos.pnl <= 0)
    ELSE position_data

\* `# Apply P&L filter if specified`: the two list comprehensions
ApplyPnlFilter(position_data, pnl_filter) ==
    IF pnl_filter = "profit" THEN SelectSeq(position_data, LAMBDA pos : pos.pnl > 0)
    ELSE IF pnl_filter = "loss" THEN SelectSeq(position_data, LAMBDA pos : pos.pnl < 0)
    ELSE position_data

get_assets_data(ws, account_id, by_account, currency, pnl_filter) ==
    LET fetched == ws.positions
        positions == IF account_id # NoAccount
                     THEN _filter_positions_by_account(fetched, account_id)
                     ELSE fetched
        accounts == _get_accounts_for_assets(ws, account_id)
        fetches == IF by_account
                   THEN <<Fetch("get_identity_positions", NoAccount),
                          Fetch("get_accounts", NoAccount)>>
                   ELSE <<Fetch("get_identity_positions", NoAccount)>>
    IN  IF RaisesOn(ws).get_identity_positions
        THEN [ReturnedEarly EXCEPT !.raised = TRUE]
        ELSE IF fetched = <<>> THEN ReturnedEarly
        ELSE IF positions = <<>> THEN ReturnedEarly
        ELSE IF by_account /\ RaisesOn(ws).get_accounts
        THEN [ReturnedEarly EXCEPT !.cache = assets_security_cache_new, !.cached = TRUE,
                                   !.raised = TRUE, !.fetches = fetches]
        ELSE IF by_account /\ accounts = <<>>
        THEN [ReturnedEarly EXCEPT !.cache = assets_security_cache_new, !.cached = TRUE,
                                   !.fetches = fetches]
        ELSE TheOnly({
                 IF done.raised
                 THEN [result |-> <<>>, cache |-> done.cache, calls |-> done.calls,
                       raised |-> TRUE, cached |-> TRUE, fetches |-> fetches]
                 ELSE [result |-> ApplyPnlFilter(done.result, pnl_filter),
                       cache |-> done.cache, calls |-> done.calls,
                       raised |-> FALSE, cached |-> TRUE, fetches |-> fetches] :
                 done \in {IF ~by_account
                           THEN PositionsLoop(ws, positions, 1, assets_security_cache_new,
                                              currency, None)
                           ELSE _get_positions_by_account_grouped(
                                    ws, positions, accounts, assets_security_cache_new,
                                    currency)}})

(***************************************************************************)
(* activities.py                                                           *)
(***************************************************************************)
DIVIDEND_TYPES ==
    { <<"D", "I", "Y", "_", "D", "I", "V", "I", "D", "E", "N", "D">>,
      <<"D", "I", "V", "I", "D", "E", "N", "D">>,
      <<"D", "I", "S", "T", "R", "I", "B", "U", "T", "I", "O", "N">> }

is_dividend_activity(activity) ==
    LET act_type == upper(Get(activity, "type", EmptyStr))
        description == upper(Get(activity, "description", EmptyStr))
    IN  \E div \in DIVIDEND_TYPES : Contains(act_type, div) \/ Contains(description, div)

\* the character classes [a-z], [a-f0-9] and \d
LowerLetters == {LOWER[i] : i \in 1..Len(LOWER)}

Digits == {"0", "1", "2", "3", "4", "5", "6", "7", "8", "9"}

HexDigits == Digits \cup {"a", "b", "c", "d", "e", "f"}

\* the number of consecutive characters of class at s[i], s[i+1], ...
RECURSIVE RunLength(_, _, _)
RunLength(s, i, class) ==
    IF i <= Len(s) /\ s[i] \in class THEN 1 + RunLength(s, i + 1, class) ELSE 0

\* the length of the match of sec-[a-z]-[a-f0-9]+ at s[i], 0 when none
SecurityIdAt(s, i) ==
    IF /\ i >= 1
       /\ i + 6 <= Len(s)
       /\ SubSeq(s, i, i + 3) = <<"s", "e", "c", "-">>
       /\ s[i + 4] \in LowerLetters
       /\ s[i + 5] = "-"
       /\ s[i + 6] \in HexDigits
    THEN 6 + RunLength(s, i + 6, HexDigits)
    ELSE 0

\* re.search(r"\[?(sec-[a-z]-[a-f0-9]+)", s): group 1 of the leftmost match,
\* None when there is none
SearchSecurityId(s) ==
    LET starts == {i \in 1..Len(s) : SecurityIdAt(s, i) > 0}
        first == CHOOSE i \in starts : \A j \in starts : i <= j
    IN  IF starts = {} THEN None
        ELSE SubSeq(s, first, first + SecurityIdAt(s, first) - 1)

\* re.sub(r"\[?(sec-[a-z]-[a-f0-9]+)\]?", repl, s) from s[i] on
RECURSIVE SubSecurityIds(_, _, _)
SubSecurityIds(s, i, repl) ==
    IF i > Len(s) THEN <<>>
    ELSE LET start == IF s[i] = "[" /\ SecurityIdAt(s, i + 1) > 0 THEN i + 1 ELSE i
             n == SecurityIdAt(s, start)
             after == start + n
             next == IF after <= Len(s) /\ s[after] = "]" THEN after + 1 ELSE after
         IN  IF n = 0 THEN <<s[i]>> \o SubSecurityIds(s, i + 1, repl)
             ELSE repl \o SubSecurityIds(s, next, repl)

\* re.search(r"buy (\d+\.?\d*)", s): group 1 of the leftmost match, None
\* when there is none
SearchBuyQuantity(s) ==
    LET starts == {i \in 1..Len(s) :
                      /\ i + 4 <= Len(s)
                      /\ SubSeq(s, i, i + 3) = <<"b", "u", "y", " ">>
                      /\ s[i + 4] \in Digits}
        first == CHOOSE i \in starts : \A j \in starts : i <= j
        whole == RunLength(s, first + 4, Digits)
        dot == first + 4 + whole
        frac == IF dot <= Len(s) /\ s[dot] = "." THEN 1 + RunLength(s, dot + 1, Digits)
                ELSE 0
    IN  IF starts = {} THEN None
        ELSE SubSeq(s, first + 4, first + 4 + whole + frac - 1)

STR_DIY_BUY == <<"D", "I", "Y", "_", "B", "U", "Y">>

STR_REINVESTMENT == <<"D", "i", "v", "i", "d", "e", "n", "d", " ", "r", "e", "i", "n", "v", "e", "s", "t", "m", "e", "n", "t", ":", " ", "b", "u", "y", " ">>

\* the security id of activity.get("security"): a dict's "id", or the bare
\* identifier; None when the reference is absent or falsy
DirectSecurityId(activity) ==
    LET security == Get(activity, "security", [kind |-> "none"])
    IN  IF security.kind = "dict" THEN Get(security.value, "id", None)
        ELSE IF security.kind = "str" /\ TruthyStr(security.value) THEN security.value
        ELSE None

\* _enhance_description without `if security_id:`: the name is looked up and
\* put into the text even when no identifier was found
_enhance_description_without_guard(ws, activity, security_cache) ==
    LET description == Get(activity, "description", STR_NA)
        direct == DirectSecurityId(activity)
        Enhanced(security_id) ==
            IF FALSE
            THEN [ret |-> description, cache |-> security_cache, calls |-> <<>>,
                  raised |-> FALSE]
            ELSE TheOnly({
                     [ret |-> TheOnly({
                                  IF /\ Contains(Get(activity, "type", EmptyStr), STR_DIY_BUY)
                                     /\ ~Contains(replaced, looked.ret)
                                     /\ qty # None
                                  THEN STR_REINVESTMENT \o qty \o <<" ">> \o looked.ret
                                  ELSE replaced :
                                  replaced \in {SubSecurityIds(description, 1, looked.ret)},
                                  qty \in {SearchBuyQuantity(
                                               SubSecurityIds(description, 1, looked.ret))}}),
                      cache |-> looked.cache,
                      calls |-> looked.calls,
                      raised |-> looked.raised] :
                     looked \in {_get_security_name(ws, IF security_id = None THEN EmptyStr ELSE security_id,
                                                  security_cache)}})
    IN  TheOnly({Enhanced(security_id) :
                    security_id \in {IF direct # None /\ TruthyStr(direct) THEN direct
                                     ELSE SearchSecurityId(description)}})

_enhance_description(ws, activity, security_cache) ==
    LET description == Get(activity, "description", STR_NA)
        direct == DirectSecurityId(activity)
        Enhanced(security_id) ==
            IF security_id = None
            THEN [ret |-> description, cache |-> security_cache, calls |-> <<>>,
                  raised |-> FALSE]
            ELSE TheOnly({
                     [ret |-> TheOnly({
                                  IF /\ Contains(Get(activity, "type", EmptyStr), STR_DIY_BUY)
                                     /\ ~Contains(replaced, looked.ret)
                                     /\ qty # None
                                  THEN STR_REINVESTMENT \o qty \o <<" ">> \o looked.ret
                                  ELSE replaced :
                                  replaced \in {SubSecurityIds(description, 1, looked.ret)},
                                  qty \in {SearchBuyQuantity(
                                               SubSecurityIds(description, 1, looked.ret))}}),
                      cache |-> looked.cache,
                      calls |-> looked.calls,
                      raised |-> looked.raised] :
                     looked \in {_get_security_name(ws, security_id, security_cache)}})
    IN  TheOnly({Enhanced(security_id) :
                    security_id \in {IF direct # None /\ TruthyStr(direct) THEN direct
                                     ELSE SearchSecurityId(description)}})

\* iso_date.replace("Z", "+00:00")
RECURSIVE ReplaceZ(_)
ReplaceZ(s) ==
    IF s = <<>> THEN <<>>
    ELSE (IF Head(s) = "Z" THEN <<"+", "0", "0", ":", "0", "0">> ELSE <<Head(s)>>)
             \o ReplaceZ(Tail(s))

DigitChars == <<"0", "1", "2", "3", "4", "5", "6", "7", "8", "9">>

AllDigits(s) == \A i \in DOMAIN s : s[i] \in Digits

\* the number the decimal digits of s write
RECURSIVE DecimalOf(_)
DecimalOf(s) ==
    IF s = <<>> THEN 0
    ELSE 10 * DecimalOf(SubSeq(s, 1, Len(s) - 1))
             + (CHOOSE d \in 0..9 : DigitChars[d + 1] = s[Len(s)])

DaysInMonth(year, month) ==
    IF month = 2
    THEN (IF (year % 4 = 0 /\ year % 100 # 0) \/ year % 400 = 0 THEN 29 ELSE 28)
    ELSE IF month \in {4, 6, 9, 11} THEN 30 ELSE 31

\* hh:mm with hh < 24 and mm < 60
IsHourMinute(s) ==
    /\ Len(s) = 5
    /\ s[3] = ":"
    /\ AllDigits(SubSeq(s, 1, 2)) /\ AllDigits(SubSeq(s, 4, 5))
    /\ DecimalOf(SubSeq(s, 1, 2)) < 24
    /\ DecimalOf(SubSeq(s, 4, 5)) < 60

\* the time of day fromisoformat takes: hh, hh:mm or hh:mm:ss, a fraction of
\* three or six digits behind the seconds, and a UTC offset of +hh:mm or -hh:mm
IsIsoTime(t) ==
    LET signs == {i \in DOMAIN t : t[i] \in {"+", "-"}}
        cut == IF signs = {} THEN Len(t) + 1
               ELSE CHOOSE i \in signs : \A j \in signs : i <= j
        clock == SubSeq(t, 1, cut - 1)
        offset == SubSeq(t, cut + 1, Len(t))
        dots == {i \in DOMAIN clock : clock[i] = "."}
        dot == IF dots = {} THEN Len(clock) + 1
               ELSE CHOOSE i \in dots : \A j \in dots : i <= j
        main == SubSeq(clock, 1, dot - 1)
        fraction == SubSeq(clock, dot + 1, Len(clock))
    IN  /\ cut <= Len(t) => IsHourMinute(offset)
        /\ dot <= Len(clock) =>
               /\ Len(main) = 8
               /\ Len(fraction) \in {3, 6}
               /\ AllDigits(fraction)
        /\ \/ /\ Len(main) = 2
              /\ AllDigits(main) /\ DecimalOf(main) < 24
           \/ IsHourMinute(main)
           \/ /\ Len(main) = 8
              /\ IsHourMinute(SubSeq(main, 1, 5))
              /\ main[6] = ":"
              /\ AllDigits(SubSeq(main, 7, 8))
              /\ DecimalOf(SubSeq(main, 7, 8)) < 60

\* datetime.fromisoformat(s): the date it reads, or ValueError.  A date
\* YYYY-MM-DD, alone or followed by one separator character and a time.
fromisoformat(s) ==
    LET year == DecimalOf(SubSeq(s, 1, 4))
        month == DecimalOf(SubSeq(s, 6, 7))
        day == DecimalOf(SubSeq(s, 9, 10))
    IN  IF /\ Len(s) >= 10
           /\ AllDigits(SubSeq(s, 1, 4)) /\ s[5] = "-"
           /\ AllDigits(SubSeq(s, 6, 7)) /\ s[8] = "-"
           /\ AllDigits(SubSeq(s, 9, 10))
           /\ year >= 1
           /\ month \in 1..12
           /\ day \in 1..DaysInMonth(year, month)
           /\ Len(s) > 10 => (Len(s) > 11 /\ IsIsoTime(SubSeq(s, 12, Len(s))))
        THEN [raised |-> FALSE, year |-> year, month |-> month, day |-> day]
        ELSE [raised |-> TRUE]

\* the decimal digits of n, with zeros in front up to width characters
RECURSIVE ZeroPadded(_, _)
ZeroPadded(n, width) ==
    IF width <= 1 /\ n < 10
    THEN <<DigitChars[n + 1]>>
    ELSE ZeroPadded(n \div 10, width - 1)
             \o <<DigitChars[(n % 10) + 1]>>

\* dt.strftime("%Y-%m-%d")
strftime_ymd(dt) ==
    ZeroPadded(dt.year, 4) \o <<"-">> \o ZeroPadded(dt.month, 2) \o <<"-">>
        \o ZeroPadded(dt.day, 2)

_format_date(iso_date) ==
    TheOnly({IF dt.raised
             THEN (IF Len(iso_date) >= 10 THEN Prefix(iso_date, 10) ELSE STR_NA)
             ELSE strftime_ymd(dt) :
             dt \in {fromisoformat(ReplaceZ(iso_date))}})

\* a sign taken from the amount: '+' for an amount that is not negative
SignOf_from_amount(activity) == IF Get(activity, "amount", 0) >= 0 THEN "+" ELSE "-"

\* `"+" if activity.get("amountSign") == "positive" else "-"`
SignOf(activity) ==
    IF Get(activity, "amountSign", None) = <<"p", "o", "s", "i", "t", "i", "v", "e">>
    THEN "+" ELSE "-"

\* `float(activity.get("amount") or 0)`
AmountOf(activity) == Get(activity, "amount", 0)

_transform_activity(ws, activity, security_cache, account_label) ==
    TheOnly({
        [data |-> [date |-> _format_date(Get(activity, "occurredAt", EmptyStr)),
                   activity_type |-> Prefix(Get(activity, "type", STR_NA), 14),
                   description |-> Prefix(enhanced.ret, 34),
                   amount |-> AmountOf(activity),
                   currency |-> Get(activity, "currency", STR_CAD),
                   sign |-> SignOf(activity),
                   account_label |-> account_label],
         cache |-> enhanced.cache,
         calls |-> enhanced.calls,
         raised |-> enhanced.raised] :
        enhanced \in {_enhance_description(ws, activity, security_cache)}})

\* s[:n], n of either sign
Slice(s, n) == IF n >= 0 THEN Prefix(s, n)
               ELSE Prefix(s, IF Len(s) + n > 0 THEN Len(s) + n ELSE 0)

\* `[_transform_activity(...) for act in activities]`, the cache passed from
\* one to the next.  An exception ends the loop.
RECURSIVE ActivitiesLoop(_, _, _, _, _)
ActivitiesLoop(ws, activities, i, security_cache, account_label) ==
    IF i > Len(activities)
    THEN [result |-> <<>>, cache |-> security_cache, calls |-> <<>>, raised |-> FALSE]
    ELSE TheOnly({
             IF d.raised
             THEN [result |-> <<>>, cache |-> d.cache, calls |-> d.calls, raised |-> TRUE]
             ELSE TheOnly({
                      [result |-> <<d.data>> \o rest.result,
                       cache |-> rest.cache,
                       calls |-> d.calls \o rest.calls,
                       raised |-> rest.raised] :
                      rest \in {ActivitiesLoop(ws, activities, i + 1, d.cache,
                                               account_label)}}) :
             d \in {_transform_activity(ws, activities[i], security_cache, account_label)}})

\* a fetch that answers with the activities of the first account whatever
\* the account asked about
get_activities_of_first_account(ws, account_id) ==
    IF ws.accounts # <<>> /\ Get(ws.accounts[1], "id", NoAccount) \in DOMAIN ws.activities
    THEN ws.activities[Get(ws.accounts[1], "id", NoAccount)]
    ELSE <<>>

\* ws.get_activities(account_id); the account ids it is called with are kept
\* as `fetched`
get_activities(ws, account_id) ==
    IF account_id \in DOMAIN ws.activities THEN ws.activities[account_id] ELSE <<>>

\* _process_account_activities that cuts to the limit before it filters
_process_account_activities_cut_first(ws, account_id, account_label, security_cache, dividends_only, limit) ==
    LET fetched == Slice(get_activities(ws, account_id), limit)
        activities == IF dividends_only
                      THEN SelectSeq(fetched, LAMBDA a : is_dividend_activity(a))
                      ELSE fetched
    IN  IF account_id \in RaisesOn(ws).get_activities
        THEN [result |-> <<>>, cache |-> security_cache, calls |-> <<>>,
              raised |-> TRUE, fetched |-> <<account_id>>]
        ELSE TheOnly({[result |-> r.result, cache |-> r.cache, calls |-> r.calls,
                       raised |-> r.raised, fetched |-> <<account_id>>] :
                      r \in {ActivitiesLoop(ws, activities, 1,
                                            security_cache, account_label)}})

_process_account_activities(ws, account_id, account_label, security_cache, dividends_only, limit) ==
    LET fetched == get_activities(ws, account_id)
        activities == IF dividends_only
                      THEN SelectSeq(fetched, LAMBDA a : is_dividend_activity(a))
                      ELSE fetched
    IN  IF account_id \in RaisesOn(ws).get_activities
        THEN [result |-> <<>>, cache |-> security_cache, calls |-> <<>>,
              raised |-> TRUE, fetched |-> <<account_id>>]
        ELSE TheOnly({[result |-> r.result, cache |-> r.cache, calls |-> r.calls,
                       raised |-> r.raised, fetched |-> <<account_id>>] :
                      r \in {ActivitiesLoop(ws, Slice(activities, limit), 1,
                                            security_cache, account_label)}})

\* a loop that goes on to the next account when an account's fetch raised
RECURSIVE AllAccountsLoop_skips_failed_account(_, _, _, _, _, _)
AllAccountsLoop_skips_failed_account(ws, accounts, a, security_cache, dividends_only, limit) ==
    IF a > Len(accounts)
    THEN [result |-> <<>>, cache |-> security_cache, calls |-> <<>>, raised |-> FALSE,
          fetched |-> <<>>]
    ELSE LET acc_id == Get(accounts[a], "id", NoAccount)
             acc_label == Get(accounts[a], "description", STR_UNKNOWN) \o <<" ", "(">>
                              \o Get(accounts[a], "number", STR_NA) \o <<")">>
         IN  TheOnly({
                 IF FALSE THEN here
                 ELSE TheOnly({
                          [result |-> here.result \o rest.result,
                           cache |-> rest.cache,
                           calls |-> here.calls \o rest.calls,
                           raised |-> rest.raised,
                           fetched |-> here.fetched \o rest.fetched] :
                          rest \in {AllAccountsLoop_skips_failed_account(ws, accounts, a + 1, here.cache,
                                                    dividends_only, limit)}}) :
                 here \in {_process_account_activities(ws, acc_id, acc_label,
                               security_cache, dividends_only, limit)}})

RECURSIVE AllAccountsLoop(_, _, _, _, _, _)
AllAccountsLoop(ws, accounts, a, security_cache, dividends_only, limit) ==
    IF a > Len(accounts)
    THEN [result |-> <<>>, cache |-> security_cache, calls |-> <<>>, raised |-> FALSE,
          fetched |-> <<>>]
    ELSE LET acc_id == Get(accounts[a], "id", NoAccount)
             acc_label == Get(accounts[a], "description", STR_UNKNOWN) \o <<" ", "(">>
                              \o Get(accounts[a], "number", STR_NA) \o <<")">>
         IN  TheOnly({
                 IF here.raised THEN here
                 ELSE TheOnly({
                          [result |-> here.result \o rest.result,
                           cache |-> rest.cache,
                           calls |-> here.calls \o rest.calls,
                           raised |-> rest.raised,
                           fetched |-> here.fetched \o rest.fetched] :
                          rest \in {AllAccountsLoop(ws, accounts, a + 1, here.cache,
                                                    dividends_only, limit)}}) :
                 here \in {_process_account_activities(ws, acc_id, acc_label,
                               security_cache, dividends_only, limit)}})

\* get_activities_data going on with the cache the call before it filled
activities_security_cache_kept == activity_security_cache

\* `security_cache: dict[str, str] = {}` of get_activities_data
activities_security_cache_new == EmptyDict

get_activities_data(ws, account_id, dividends_only, limit) ==
    LET accounts == ws.accounts
    IN  IF account_id = NoAccount /\ RaisesOn(ws).get_accounts
        THEN [result |-> <<>>, cache |-> activities_security_cache_new, calls |-> <<>>,
              raised |-> TRUE, cached |-> TRUE, fetched |-> <<>>,
              fetches |-> <<Fetch("get_accounts", NoAccount)>>]
        ELSE IF account_id = NoAccount /\ accounts = <<>>
        THEN [result |-> <<>>, cache |-> activities_security_cache_new, calls |-> <<>>,
              raised |-> FALSE, cached |-> TRUE, fetched |-> <<>>,
              fetches |-> <<Fetch("get_accounts", NoAccount)>>]
        ELSE TheOnly({
                 [result |-> IF done.raised THEN <<>> ELSE done.result,
                  cache |-> done.cache, calls |-> done.calls,
                  raised |-> done.raised, cached |-> TRUE, fetched |-> done.fetched,
                  fetches |-> (IF account_id = NoAccount THEN <<Fetch("get_accounts", NoAccount)>>
                               ELSE <<>>)
                              \o [i \in DOMAIN done.fetched |->
                                     Fetch("get_activities", done.fetched[i])]] :
                 done \in {IF account_id # NoAccount
                           THEN _process_account_activities(ws, account_id, None,
                                    activities_security_cache_new, dividends_only, limit)
                           ELSE AllAccountsLoop(ws, accounts, 1,
                                    activities_security_cache_new, dividends_only,
                                    limit)}})

(***************************************************************************)
(* formatters.py: what each formatter returns, as the lines, the JSON      *)
(* document or the CSV rows it is made of.  A number that is written as    *)
(* text (json.dumps, csv.writer) is written digit by digit.                *)
(***************************************************************************)

\* `if x:` on an Optional[str]
TruthyLabel(label) == label # None /\ label # EmptyStr

\* `label or ""`
OrEmpty(label) == IF TruthyLabel(label) THEN label ELSE EmptyStr

\* sum(...) of a sequence of numbers
RECURSIVE sum(_)
sum(xs) == IF xs = <<>> THEN 0 ELSE Head(xs) + sum(Tail(xs))

RECURSIVE NatRepr(_)
NatRepr(n) ==
    IF n < 10 THEN <<DigitChars[n + 1]>>
    ELSE NatRepr(n \div 10) \o <<DigitChars[(n % 10) + 1]>>

\* float.__repr__ of a whole number: the digits and ".0"
float_repr(x) ==
    (IF x < 0 THEN <<"-">> ELSE <<>>) \o NatRepr(IF x < 0 THEN -x ELSE x) \o <<".", "0">>

RECURSIVE Gcd(_, _)
Gcd(a, b) == IF b = 0 THEN a ELSE Gcd(b, a % b)

Abs(x) == IF x < 0 THEN -x ELSE x

\* float.__repr__ of a quotient: one text for one value, whichever way the
\* quotient was arrived at
ratio_repr(q) ==
    LET g == Gcd(Abs(q.num), Abs(q.den))
        negative == (q.num < 0) # (q.den < 0)
    IN  (IF negative /\ q.num # 0 THEN <<"-">> ELSE <<>>)
            \o NatRepr(Abs(q.num) \div g) \o <<"/">> \o NatRepr(Abs(q.den) \div g)

\* total_pnl_pct computed from the market value instead of the book value
_calculate_position_totals_over_value(positions) ==
    LET total_value == sum([i \in DOMAIN positions |-> positions[i].market_value])
        total_book == sum([i \in DOMAIN positions |-> positions[i].book_value])
        total_pnl == total_value - total_book
    IN  [total_value |-> total_value, total_book |-> total_book, total_pnl |-> total_pnl,
         total_pnl_pct |-> IF total_value # 0
                           THEN [num |-> total_pnl * 100, den |-> total_value]
                           ELSE [num |-> 0, den |-> 1]]

_calculate_position_totals(positions) ==
    LET total_value == sum([i \in DOMAIN positions |-> positions[i].market_value])
        total_book == sum([i \in DOMAIN positions |-> positions[i].book_value])
        total_pnl == total_value - total_book
    IN  [total_value |-> total_value, total_book |-> total_book, total_pnl |-> total_pnl,
         total_pnl_pct |-> IF total_book # 0
                           THEN [num |-> total_pnl * 100, den |-> total_book]
                           ELSE [num |-> 0, den |-> 1]]

\* a line of width times "=" or "-"
Rule(ch, width) == [kind |-> "rule", ch |-> ch, width |-> width]

\* the empty line a "\n" in front of a line makes
Blank == [kind |-> "blank"]

\* the line f"Account: {label}{suffix}"
AccountLine(label, dividends_suffix) ==
    [kind |-> "account", label |-> label, dividends_suffix |-> dividends_suffix]

TableFormatter_format_position_row(pos) ==
    [kind |-> "row", symbol |-> pos.symbol, name |-> pos.name,
     quantity |-> pos.quantity, market_value |-> pos.market_value,
     currency |-> pos.currency, pnl |-> pos.pnl, pnl_pct |-> pos.pnl_pct]

TableFormatter_format_totals_row(total_value, total_pnl, total_pnl_pct, label, currency) ==
    [kind |-> "totals", label |-> label, total_value |-> total_value,
     currency |-> currency, total_pnl |-> total_pnl, total_pnl_pct |-> total_pnl_pct]

TableFormatter_format_positions(positions, show_totals, group_label) ==
    IF positions = <<>> THEN [format |-> "message", text |-> "No positions found."]
    ELSE [format |-> "table",
          lines |->
              (IF TruthyLabel(group_label)
               THEN <<Blank, Rule("=", 94), AccountLine(group_label, FALSE), Rule("=", 94)>>
               ELSE <<Blank, Rule("=", 94)>>)
              \o <<[kind |-> "columns"], Rule("-", 94)>>
              \o [i \in DOMAIN positions |-> TableFormatter_format_position_row(positions[i])]
              \o (IF show_totals
                  THEN TheOnly({
                           <<Rule("=", 94),
                             TableFormatter_format_totals_row(
                                 t.total_value, t.total_pnl, t.total_pnl_pct,
                                 IF TruthyLabel(group_label) THEN "Account Total" ELSE "Total",
                                 positions[1].currency),
                             Rule("=", 94)>> :
                           t \in {_calculate_position_totals(positions)}})
                  ELSE <<>>)]

\* json.dumps of a str, of an Optional[str], of a float
JsonString(s) == [json |-> "string", text |-> s]

JsonOptional(s) == IF s = None THEN [json |-> "null"] ELSE JsonString(s)

JsonNumber(x) == [json |-> "number", text |-> float_repr(x)]

JsonRatio(q) == [json |-> "number", text |-> ratio_repr(q)]

\* json.dumps(asdict(pos))
PositionAsJson(pos) ==
    [symbol |-> JsonString(pos.symbol), name |-> JsonString(pos.name),
     quantity |-> JsonNumber(pos.quantity),
     market_value |-> JsonNumber(pos.market_value),
     book_value |-> JsonNumber(pos.book_value),
     currency |-> JsonString(pos.currency),
     pnl |-> JsonNumber(pos.pnl), pnl_pct |-> JsonRatio(pos.pnl_pct),
     account_label |-> JsonOptional(pos.account_label)]

\* an envelope whenever show_totals is true
JsonFormatter_format_positions_envelope_always(positions, show_totals, group_label) ==
    LET data == [i \in DOMAIN positions |-> PositionAsJson(positions[i])]
        total_value == sum([i \in DOMAIN positions |-> positions[i].market_value])
        total_book == sum([i \in DOMAIN positions |-> positions[i].book_value])
        total_pnl == total_value - total_book
        total_pnl_pct == IF total_book # 0
                         THEN [num |-> total_pnl * 100, den |-> total_book]
                         ELSE [num |-> 0, den |-> 1]
        totals == [market_value |-> JsonNumber(total_value),
                   book_value |-> JsonNumber(total_book),
                   pnl |-> JsonNumber(total_pnl),
                   pnl_pct |-> JsonRatio(total_pnl_pct),
                   currency |-> JsonString(IF positions # <<>> THEN positions[1].currency
                                          ELSE STR_CAD)]
    IN  IF show_totals
        THEN [format |-> "json", envelope |-> TRUE, positions |-> data, totals |-> totals,
              group |-> IF TruthyLabel(group_label) THEN <<JsonString(group_label)>>
                        ELSE <<>>]
        ELSE [format |-> "json", envelope |-> FALSE, positions |-> data]

JsonFormatter_format_positions(positions, show_totals, group_label) ==
    LET data == [i \in DOMAIN positions |-> PositionAsJson(positions[i])]
        total_value == sum([i \in DOMAIN positions |-> positions[i].market_value])
        total_book == sum([i \in DOMAIN positions |-> positions[i].book_value])
        total_pnl == total_value - total_book
        total_pnl_pct == IF total_book # 0
                         THEN [num |-> total_pnl * 100, den |-> total_book]
                         ELSE [num |-> 0, den |-> 1]
        totals == [market_value |-> JsonNumber(total_value),
                   book_value |-> JsonNumber(total_book),
                   pnl |-> JsonNumber(total_pnl),
                   pnl_pct |-> JsonRatio(total_pnl_pct),
                   currency |-> JsonString(positions[1].currency)]
    IN  IF show_totals /\ positions # <<>>
        THEN [format |-> "json", envelope |-> TRUE, positions |-> data, totals |-> totals,
              group |-> IF TruthyLabel(group_label) THEN <<JsonString(group_label)>>
                        ELSE <<>>]
        ELSE [format |-> "json", envelope |-> FALSE, positions |-> data]

\* what csv.writer writes of a float
CsvNumber(x) == float_repr(x)

CsvRatio(q) == ratio_repr(q)

CsvFormatter_format_positions(positions, show_totals, group_label) ==
    IF positions = <<>> THEN [format |-> "csv", rows |-> <<>>]
    ELSE [format |-> "csv",
          rows |->
              <<[kind |-> "header"]>>
              \o [i \in DOMAIN positions |->
                     [kind |-> "data",
                      cells |-> <<positions[i].symbol, positions[i].name,
                                  CsvNumber(positions[i].quantity),
                                  CsvNumber(positions[i].market_value),
                                  CsvNumber(positions[i].book_value),
                                  positions[i].currency,
                                  CsvNumber(positions[i].pnl),
                                  CsvRatio(positions[i].pnl_pct),
                                  OrEmpty(positions[i].account_label)>>]]
              \o (IF show_totals
                  THEN TheOnly({
                           <<[kind |-> "data",
                              cells |-> <<<<"T", "O", "T", "A", "L">>, EmptyStr,
                                          CsvNumber(sum([i \in DOMAIN positions |->
                                                            positions[i].quantity])),
                                          CsvNumber(t.total_value),
                                          CsvNumber(t.total_book),
                                          positions[1].currency,
                                          CsvNumber(t.total_pnl),
                                          CsvRatio(t.total_pnl_pct),
                                          OrEmpty(group_label)>>]>> :
                           t \in {_calculate_position_totals(positions)}})
                  ELSE <<>>)]

\* the class of the formatter get_formatter returns
get_formatter(format_type) ==
    IF lower(format_type) = <<"j", "s", "o", "n">> THEN "JsonFormatter"
    ELSE IF lower(format_type) = <<"c", "s", "v">> THEN "CsvFormatter"
    ELSE "TableFormatter"

\* get_formatter(format_type).format_positions
format_positions(format_type, positions, show_totals, group_label) ==
    IF get_formatter(format_type) = "JsonFormatter"
    THEN JsonFormatter_format_positions(positions, show_totals, group_label)
    ELSE IF get_formatter(format_type) = "CsvFormatter"
    THEN CsvFormatter_format_positions(positions, show_totals, group_label)
    ELSE TableFormatter_format_positions(positions, show_totals, group_label)

(***************************************************************************)
(* assets.py: printing.  What a print_* call printed is the sequence of    *)
(* the blocks its print(...) calls wrote.                                  *)
(***************************************************************************)

\* the characters of code 32 to 126, in code order (the double quote, the
\* backslash and the backquote held by their codes)
ASCII ==
    <<" ", "!", "code 34", "#", "$", "%", "&", "'", "(", ")", "*", "+", ",", "-", ".", "/",
      "0", "1", "2", "3", "4", "5", "6", "7", "8", "9", ":", ";", "<", "=", ">", "?",
      "@", "A", "B", "C", "D", "E", "F", "G", "H", "I", "J", "K", "L", "M", "N", "O",
      "P", "Q", "R", "S", "T", "U", "V", "W", "X", "Y", "Z", "[", "code 92", "]", "^", "_",
      "code 96", "a", "b", "c", "d", "e", "f", "g", "h", "i", "j", "k", "l", "m", "n", "o",
      "p", "q", "r", "s", "t", "u", "v", "w", "x", "y", "z", "{", "|", "}", "~">>

ord(ch) == 31 + (CHOOSE i \in DOMAIN ASCII : ASCII[i] = ch)

\* a < b on str: by the first character that differs, a proper prefix first
RECURSIVE str_lt(_, _)
str_lt(a, b) ==
    IF b = <<>> THEN FALSE
    ELSE IF a = <<>> THEN TRUE
    ELSE IF Head(a) = Head(b) THEN str_lt(Tail(a), Tail(b))
    ELSE ord(Head(a)) < ord(Head(b))

\* the sort key `p.account_label or ""`
LabelKey(p) == OrEmpty(p.account_label)

\* x put into a sorted sequence behind everything that is not greater
RECURSIVE InsertSorted(_, _)
InsertSorted(seq, x) ==
    IF seq = <<>> THEN <<x>>
    ELSE IF str_lt(LabelKey(x), LabelKey(Head(seq))) THEN <<x>> \o seq
    ELSE <<Head(seq)>> \o InsertSorted(Tail(seq), x)

\* sorted(data, key=lambda p: p.account_label or ""): stable
RECURSIVE sorted(_)
sorted(data) ==
    IF data = <<>> THEN <<>>
    ELSE InsertSorted(sorted(SubSeq(data, 1, Len(data) - 1)), data[Len(data)])

\* the length of the run of records at the head of data with data[1]'s label
RECURSIVE RunOf(_)
RunOf(data) ==
    IF Len(data) < 2 \/ data[2].account_label # data[1].account_label THEN 1
    ELSE 1 + RunOf(Tail(data))

\* groupby(data, key=lambda p: p.account_label): the runs of equal labels
RECURSIVE groupby(_)
groupby(data) ==
    IF data = <<>> THEN <<>>
    ELSE TheOnly({<<[key |-> data[1].account_label, group |-> SubSeq(data, 1, n)]>>
                      \o groupby(SubSeq(data, n + 1, Len(data))) :
                  n \in {RunOf(data)}})

\* _calculate_position_totals of assets.py
assets_calculate_position_totals(positions) ==
    LET total_value == sum([i \in DOMAIN positions |-> positions[i].market_value])
        total_book == sum([i \in DOMAIN positions |-> positions[i].book_value])
        total_pnl == total_value - total_book
    IN  [total_value |-> total_value, total_pnl |-> total_pnl,
         total_pnl_pct |-> IF total_book # 0
                           THEN [num |-> total_pnl * 100, den |-> total_book]
                           ELSE [num |-> 0, den |-> 1]]

\* a grand total taken from the group the loop ended on
_print_positions_by_account_total_of_last_group(format_type, positions_data) ==
    TheOnly({
        [g \in DOMAIN groups |->
            format_positions(format_type, groups[g].group, TRUE, groups[g].key)]
        \o TheOnly({
               <<[format |-> "grand total",
                  lines |-> <<Blank, Rule("=", 94),
                              [kind |-> "totals", label |-> "Grand Total",
                               total_value |-> t.total_value,
                               currency |-> positions_data[1].currency,
                               total_pnl |-> t.total_pnl,
                               total_pnl_pct |-> t.total_pnl_pct],
                              Rule("=", 94)>>]>> :
               t \in {assets_calculate_position_totals(groups[Len(groups)].group)}}) :
        groups \in {groupby(sorted(positions_data))}})

_print_positions_by_account(format_type, positions_data) ==
    TheOnly({
        [g \in DOMAIN groups |->
            format_positions(format_type, groups[g].group, TRUE, groups[g].key)]
        \o TheOnly({
               <<[format |-> "grand total",
                  lines |-> <<Blank, Rule("=", 94),
                              [kind |-> "totals", label |-> "Grand Total",
                               total_value |-> t.total_value,
                               currency |-> positions_data[1].currency,
                               total_pnl |-> t.total_pnl,
                               total_pnl_pct |-> t.total_pnl_pct],
                              Rule("=", 94)>>]>> :
               t \in {assets_calculate_position_totals(positions_data)}}) :
        groups \in {groupby(sorted(positions_data))}})

STR_TABLE == <<"t", "a", "b", "l", "e">>

STR_JSON == <<"j", "s", "o", "n">>

STR_CSV == <<"c", "s", "v">>

print_assets(ws, account_id, by_account, currency, output_format, pnl_filter) ==
    TheOnly({
        IF got.raised
        THEN [out |-> <<>>, raised |-> TRUE, data |-> <<>>, calls |-> got.calls,
              fetches |-> got.fetches,
              formatter |-> "none"]
        ELSE IF got.result = <<>>
        THEN [out |-> <<[format |-> "message", text |-> "No positions found."]>>,
              raised |-> FALSE, data |-> got.result, calls |-> got.calls,
              fetches |-> got.fetches,
              formatter |-> "none"]
        ELSE IF by_account /\ output_format = STR_TABLE
        THEN [out |-> _print_positions_by_account(output_format, got.result),
              raised |-> FALSE, data |-> got.result, calls |-> got.calls,
              fetches |-> got.fetches,
              formatter |-> get_formatter(output_format)]
        ELSE [out |-> <<format_positions(output_format, got.result, TRUE, None)>>,
              raised |-> FALSE, data |-> got.result, calls |-> got.calls,
              fetches |-> got.fetches,
              formatter |-> get_formatter(output_format)] :
        got \in {get_assets_data(ws, account_id, by_account, currency, pnl_filter)}})

(***************************************************************************)
(* formatters.py, accounts and activities; print_accounts and              *)
(* print_activities                                                        *)
(***************************************************************************)

TableFormatter_format_accounts(accounts) ==
    IF accounts = <<>> THEN [format |-> "message", text |-> "No accounts found."]
    ELSE [format |-> "table",
          lines |->
              <<Blank, Rule("=", 80), [kind |-> "columns"], Rule("-", 80)>>
              \o [i \in DOMAIN accounts |->
                     [kind |-> "row", description |-> accounts[i].description,
                      number |-> accounts[i].number, value |-> accounts[i].value,
                      currency |-> accounts[i].currency]]
              \o <<Rule("=", 80),
                   [kind |-> "totals", label |-> "Total",
                    total_value |-> sum([i \in DOMAIN accounts |-> accounts[i].value]),
                    currency |-> STR_CAD],
                   Rule("=", 80)>>]

JsonFormatter_format_accounts(accounts) ==
    [format |-> "json", envelope |-> FALSE,
     accounts |-> [i \in DOMAIN accounts |->
                      [description |-> JsonString(accounts[i].description),
                       number |-> JsonString(accounts[i].number),
                       value |-> JsonNumber(accounts[i].value),
                       currency |-> JsonString(accounts[i].currency)]]]

CsvFormatter_format_accounts(accounts) ==
    IF accounts = <<>> THEN [format |-> "csv", rows |-> <<>>]
    ELSE [format |-> "csv",
          rows |-> <<[kind |-> "header"]>>
                   \o [i \in DOMAIN accounts |->
                          [kind |-> "data",
                           cells |-> <<accounts[i].description, accounts[i].number,
                                       CsvNumber(accounts[i].value),
                                       accounts[i].currency>>]]]

\* get_formatter(format_type).format_accounts
format_accounts(format_type, accounts) ==
    IF get_formatter(format_type) = "JsonFormatter"
    THEN JsonFormatter_format_accounts(accounts)
    ELSE IF get_formatter(format_type) = "CsvFormatter"
    THEN CsvFormatter_format_accounts(accounts)
    ELSE TableFormatter_format_accounts(accounts)

\* the line of one activity
ActivityRow(act) ==
    [kind |-> "row", date |-> act.date, activity_type |-> act.activity_type,
     description |-> act.description, sign |-> act.sign, amount |-> act.amount,
     currency |-> act.currency]

\* the loop of TableFormatter.format_activities: current_account is None
\* before the first activity, "" after an unlabelled one
RECURSIVE FormatActivitiesLoop(_, _, _)
FormatActivitiesLoop(activities, i, current_account) ==
    IF i > Len(activities) THEN <<>>
    ELSE LET act == activities[i]
         IN  IF TruthyLabel(act.account_label) /\ act.account_label # current_account
             THEN (IF current_account # None THEN <<Rule("=", 80)>> ELSE <<>>)
                      \o <<Blank, Rule("=", 80), AccountLine(act.account_label, FALSE),
                           Rule("=", 80), [kind |-> "columns"], Rule("-", 80),
                           ActivityRow(act)>>
                      \o FormatActivitiesLoop(activities, i + 1, act.account_label)
             ELSE IF current_account = None
             THEN <<Blank, Rule("=", 80), [kind |-> "columns"], Rule("-", 80),
                    ActivityRow(act)>>
                      \o FormatActivitiesLoop(activities, i + 1, EmptyStr)
             ELSE <<ActivityRow(act)>>
                      \o FormatActivitiesLoop(activities, i + 1, current_account)

TableFormatter_format_activities(activities) ==
    IF activities = <<>> THEN [format |-> "message", text |-> "No activities found."]
    ELSE [format |-> "table",
          lines |-> FormatActivitiesLoop(activities, 1, None) \o <<Rule("=", 80)>>]

JsonFormatter_format_activities(activities) ==
    [format |-> "json", envelope |-> FALSE,
     activities |-> [i \in DOMAIN activities |->
                        [date |-> JsonString(activities[i].date),
                         activity_type |-> JsonString(activities[i].activity_type),
                         description |-> JsonString(activities[i].description),
                         amount |-> JsonNumber(activities[i].amount),
                         currency |-> JsonString(activities[i].currency),
                         sign |-> JsonString(<<activities[i].sign>>),
                         account_label |-> JsonOptional(activities[i].account_label)]]]

CsvFormatter_format_activities(activities) ==
    IF activities = <<>> THEN [format |-> "csv", rows |-> <<>>]
    ELSE [format |-> "csv",
          rows |-> <<[kind |-> "header"]>>
                   \o [i \in DOMAIN activities |->
                          [kind |-> "data",
                           cells |-> <<activities[i].date, activities[i].activity_type,
                                       activities[i].description,
                                       CsvNumber(activities[i].amount),
                                       activities[i].currency,
                                       <<activities[i].sign>>,
                                       OrEmpty(activities[i].account_label)>>]]]

\* get_formatter(format_type).format_activities
format_activities(format_type, activities) ==
    IF get_formatter(format_type) = "JsonFormatter"
    THEN JsonFormatter_format_activities(activities)
    ELSE IF get_formatter(format_type) = "CsvFormatter"
    THEN CsvFormatter_format_activities(activities)
    ELSE TableFormatter_format_activities(activities)

\* print_accounts without `if not accounts_data: ... return`
print_accounts_without_early_return(ws, show_zero_balances, liquid_only, not_liquid, output_format) ==
    TheOnly({
        IF got.raised
        THEN [out |-> <<>>, raised |-> TRUE, data |-> <<>>, calls |-> <<>>,
              fetches |-> got.fetches, formatter |-> "none"]
        ELSE [out |-> <<format_accounts(output_format, got.result)>>,
              raised |-> FALSE, data |-> got.result, calls |-> <<>>,
              fetches |-> got.fetches, formatter |-> get_formatter(output_format)] :
        got \in {get_accounts_data(ws, show_zero_balances, liquid_only, not_liquid)}})

print_accounts(ws, show_zero_balances, liquid_only, not_liquid, output_format) ==
    TheOnly({
        IF got.raised
        THEN [out |-> <<>>, raised |-> TRUE, data |-> <<>>, calls |-> <<>>,
              fetches |-> got.fetches, formatter |-> "none"]
        ELSE IF got.result = <<>>
        THEN [out |-> <<[format |-> "message", text |-> "No accounts found."]>>,
              raised |-> FALSE, data |-> got.result, calls |-> <<>>,
              fetches |-> got.fetches, formatter |-> "none"]
        ELSE [out |-> <<format_accounts(output_format, got.result)>>,
              raised |-> FALSE, data |-> got.result, calls |-> <<>>,
              fetches |-> got.fetches, formatter |-> get_formatter(output_format)] :
        got \in {get_accounts_data(ws, show_zero_balances, liquid_only, not_liquid)}})

\* the multi-account branch of print_activities: one header and the rows for
\* each group, and a closing line
PrintActivityGroups(activities_data, dividends_only) ==
    TheOnly({
        [g \in DOMAIN groups |->
            [format |-> "table",
             lines |->
                 <<Blank, Rule("=", 80)>>
                 \o (IF TruthyLabel(groups[g].key)
                     THEN <<AccountLine(groups[g].key, dividends_only)>> ELSE <<>>)
                 \o <<Rule("=", 80), [kind |-> "columns"], Rule("-", 80)>>
                 \o [i \in DOMAIN groups[g].group |-> ActivityRow(groups[g].group[i])]]]
        \o <<[format |-> "table", lines |-> <<Rule("=", 80)>>]>> :
        groups \in {groupby(sorted(activities_data))}})

print_activities(ws, account_id, dividends_only, limit, output_format) ==
    TheOnly({
        IF got.raised
        THEN [out |-> <<>>, raised |-> TRUE, data |-> <<>>, calls |-> got.calls,
              fetches |-> got.fetches,
              formatter |-> "none"]
        ELSE IF got.result = <<>>
        THEN [out |-> <<[format |-> "message", text |-> "No activities found."]>>,
              raised |-> FALSE, data |-> got.result, calls |-> got.calls,
              fetches |-> got.fetches,
              formatter |-> "none"]
        ELSE IF output_format = STR_TABLE /\ account_id = NoAccount
        THEN [out |-> PrintActivityGroups(got.result, dividends_only),
              raised |-> FALSE, data |-> got.result, calls |-> got.calls,
              fetches |-> got.fetches,
              formatter |-> get_formatter(output_format)]
        ELSE [out |-> <<format_activities(output_format, got.result)>>,
              raised |-> FALSE, data |-> got.result, calls |-> got.calls,
              fetches |-> got.fetches,
              formatter |-> get_formatter(output_format)] :
        got \in {get_activities_data(ws, account_id, dividends_only, limit)}})

(***************************************************************************)
(* cli.py: the commands, from the authenticated client on.  A command      *)
(* prints blocks and ends with an exit code.                               *)
(***************************************************************************)

\* get_account_id_by_number: the id of the first account with the number
get_account_id_by_number(ws, account_number) ==
    IF RaisesOn(ws).get_accounts
    THEN [ret |-> NoAccount, raised |-> TRUE, fetches |-> <<Fetch("get_accounts", NoAccount)>>]
    ELSE LET matching == SelectSeq(ws.accounts,
                                   LAMBDA a : Get(a, "number", None) = account_number)
         IN  [ret |-> IF matching = <<>> THEN NoAccount
                      ELSE Get(matching[1], "id", NoAccount),
              raised |-> FALSE, fetches |-> <<Fetch("get_accounts", NoAccount)>>]

\* print(f"Error fetching {what}: {e}")
ErrorFetching(what) == [format |-> "error", text |-> "Error fetching", what |-> what]

\* print(f"Account '{account}' not found.")
AccountNotFound(account) == [format |-> "error", text |-> "Account not found", what |-> account]

\* the list command
cli_list_accounts_cmd(ws, show_zero_balances, liquid_only, not_liquid, output_format) ==
    TheOnly({
        IF done.raised
        THEN [out |-> done.out \o <<ErrorFetching("accounts")>>, exit_code |-> 1,
              fetches |-> done.fetches, raised |-> TRUE]
        ELSE [out |-> done.out, exit_code |-> 0, fetches |-> done.fetches,
              raised |-> FALSE] :
        done \in {print_accounts(ws, show_zero_balances, liquid_only, not_liquid,
                                 output_format)}})

\* the activities command; account is "" when the option is not given
cli_activities(ws, account, dividends_only, limit, output_format) ==
    TheOnly({
        IF found.raised
        THEN [out |-> <<ErrorFetching("activities")>>, exit_code |-> 1,
              fetches |-> found.fetches, raised |-> TRUE]
        ELSE IF TruthyStr(account) /\ found.ret = NoAccount
        THEN [out |-> <<AccountNotFound(account)>>, exit_code |-> 1,
              fetches |-> found.fetches, raised |-> FALSE]
        ELSE TheOnly({
                 IF done.raised
                 THEN [out |-> done.out \o <<ErrorFetching("activities")>>, exit_code |-> 1,
                       fetches |-> found.fetches \o done.fetches, raised |-> TRUE]
                 ELSE [out |-> done.out, exit_code |-> 0,
                       fetches |-> found.fetches \o done.fetches, raised |-> FALSE] :
                 done \in {print_activities(ws, found.ret, dividends_only, limit,
                                            output_format)}}) :
        found \in {IF TruthyStr(account) THEN get_account_id_by_number(ws, account)
                   ELSE [ret |-> NoAccount, raised |-> FALSE, fetches |-> <<>>]}})

\* the assets command
cli_assets(ws, account, by_account, profits, losses, output_format) ==
    IF profits /\ losses
    THEN [out |-> <<[format |-> "error", text |-> "cannot be used together",
                     what |-> "--profits and --losses"]>>,
          exit_code |-> 1, fetches |-> <<>>, raised |-> FALSE]
    ELSE TheOnly({
        IF found.raised
        THEN [out |-> <<ErrorFetching("assets")>>, exit_code |-> 1,
              fetches |-> found.fetches, raised |-> TRUE]
        ELSE IF TruthyStr(account) /\ found.ret = NoAccount
        THEN [out |-> <<AccountNotFound(account)>>, exit_code |-> 1,
              fetches |-> found.fetches, raised |-> FALSE]
        ELSE TheOnly({
                 IF done.raised
                 THEN [out |-> done.out \o <<ErrorFetching("assets")>>, exit_code |-> 1,
                       fetches |-> found.fetches \o done.fetches, raised |-> TRUE]
                 ELSE [out |-> done.out, exit_code |-> 0,
                       fetches |-> found.fetches \o done.fetches, raised |-> FALSE] :
                 done \in {print_assets(ws, found.ret, by_account, STR_CAD, output_format,
                                        IF profits THEN "profit"
                                        ELSE IF losses THEN "loss" ELSE "none")}}) :
        found \in {IF TruthyStr(account) THEN get_account_id_by_number(ws, account)
                   ELSE [ret |-> NoAccount, raised |-> FALSE, fetches |-> <<>>]}})

(***************************************************************************)
(* auth.py.  The keyring is a record: the last_email entry and the         *)
(* session entry of each username, None where there is none.  What the     *)
(* user types at a prompt and what a call of the Wealthsimple client does  *)
(* (return, or raise which exception) come from outside.                   *)
(***************************************************************************)
STR_EMAIL == <<"m", "e", "@", "x">>

STR_OTHER_EMAIL == <<"y", "o", "u", "@", "x">>

Usernames == {STR_EMAIL, STR_OTHER_EMAIL}

SESSION_JSON == <<"{", "}">>

\* _get_username: the argument, else the cached email, else what is typed
_get_username(username, keyring, entered) ==
    IF TruthyLabel(username) THEN username
    ELSE IF TruthyLabel(keyring.last_email) THEN keyring.last_email
    ELSE entered

\* the client WealthsimpleAPI.from_token returns
Client(username, keyring) == <<"WealthsimpleAPI", username, keyring.session[username]>>

\* how restoring a stored session goes: each of the three calls in the try
\* block may raise
RestoreOutcomes == {"valid", "from_json raises", "from_token raises", "get_accounts raises"}

\* _try_restore_session that returns the client without testing the session
_try_restore_session_untested(username, keyring, outcome) ==
    IF ~TruthyLabel(keyring.session[username])
    THEN [ws |-> None, get_accounts |-> 0]
    ELSE IF outcome \in {"from_json raises", "from_token raises"}
    THEN [ws |-> None, get_accounts |-> 0]
    ELSE [ws |-> Client(username, keyring), get_accounts |-> 0]

\* _try_restore_session: the client, or None; get_accounts counts the calls
\* of ws.get_accounts()
_try_restore_session(username, keyring, outcome) ==
    IF ~TruthyLabel(keyring.session[username])
    THEN [ws |-> None, get_accounts |-> 0]
    ELSE IF outcome \in {"from_json raises", "from_token raises"}
    THEN [ws |-> None, get_accounts |-> 0]
    ELSE IF outcome = "get_accounts raises"
    THEN [ws |-> None, get_accounts |-> 1]
    ELSE [ws |-> Client(username, keyring), get_accounts |-> 1]

\* what one WealthsimpleAPI.login call and the lines after it do: raise
\* nothing, raise nothing but leave no session that can be read back, or
\* raise
LoginOutcomes ==
    {"logged in", "logged in, session unreadable", "OTPRequiredException",
     "LoginFailedException", "Exception"}

\* one pass of `while True` of _perform_login in which an OTPRequired
\* outcome also forgets the password
_perform_login_forgets_password(username, password, otp_answer, keyring, entered_password, outcome, entered_otp) ==
    LET prompted == ~TruthyLabel(password)
        sent == IF prompted THEN entered_password ELSE password
        attempt == [prompted_password |-> prompted, password |-> sent,
                    otp_answer |-> otp_answer, outcome |-> outcome,
                    prompted_otp |-> outcome = "OTPRequiredException",
                    entered_otp |-> entered_otp]
        persisted == [keyring EXCEPT !.session[username] = SESSION_JSON]
    IN  CASE outcome = "logged in" ->
                 [returned |-> TRUE, ret |-> Client(username, persisted),
                  password |-> sent, otp_answer |-> otp_answer,
                  keyring |-> [persisted EXCEPT !.last_email = username],
                  attempt |-> attempt]
          [] outcome = "OTPRequiredException" ->
                 [returned |-> FALSE, ret |-> None,
                  password |-> None, otp_answer |-> entered_otp,
                  keyring |-> keyring, attempt |-> attempt]
          [] outcome = "LoginFailedException" ->
                 [returned |-> FALSE, ret |-> None,
                  password |-> None, otp_answer |-> None,
                  keyring |-> keyring, attempt |-> attempt]
          [] OTHER ->
                 [returned |-> TRUE, ret |-> None,
                  password |-> sent, otp_answer |-> otp_answer,
                  keyring |-> keyring, attempt |-> attempt]

\* one pass of `while True` of _perform_login: the password prompt if there
\* is no password, the login call, and what follows its outcome
_perform_login(username, password, otp_answer, keyring, entered_password, outcome, entered_otp) ==
    LET prompted == ~TruthyLabel(password)
        sent == IF prompted THEN entered_password ELSE password
        attempt == [prompted_password |-> prompted, password |-> sent,
                    otp_answer |-> otp_answer, outcome |-> outcome,
                    prompted_otp |-> outcome = "OTPRequiredException",
                    entered_otp |-> entered_otp]
        persisted == [keyring EXCEPT !.session[username] = SESSION_JSON]
    IN  CASE outcome = "logged in" ->
                 [returned |-> TRUE, ret |-> Client(username, persisted),
                  password |-> sent, otp_answer |-> otp_answer,
                  keyring |-> [persisted EXCEPT !.last_email = username],
                  attempt |-> attempt]
          [] outcome = "OTPRequiredException" ->
                 [returned |-> FALSE, ret |-> None,
                  password |-> sent, otp_answer |-> entered_otp,
                  keyring |-> keyring, attempt |-> attempt]
          [] outcome = "LoginFailedException" ->
                 [returned |-> FALSE, ret |-> None,
                  password |-> None, otp_answer |-> None,
                  keyring |-> keyring, attempt |-> attempt]
          [] OTHER ->
                 [returned |-> TRUE, ret |-> None,
                  password |-> sent, otp_answer |-> otp_answer,
                  keyring |-> keyring, attempt |-> attempt]

(***************************************************************************)
(* The upstream data: what get_accounts, get_activities, the positions     *)
(* fetch and get_security_market_data answer.                              *)
(***************************************************************************)
AccountIds == {"acc-1", "acc-2"}

EmptyWorld ==
    [accounts |-> <<>>,
     activities |-> [a \in AccountIds |-> <<>>],
     positions |-> <<>>,
     market |-> [i \in SecurityIds |-> RaiseResponse]]

\* all sequences over S of length at most n
SeqsUpTo(S, n) == UNION {[1..k -> S] : k \in 0..n}

(***************************************************************************)
(* Resolver level: any sequence of resolve calls on one cache, the         *)
(* external capability answering each call as it likes.                    *)
(***************************************************************************)
MaxCalls == 2

\* a client whose market-data capability answers resp
MarketClient(resp) == [market |-> [i \in SecurityIds |-> resp]]

NoResolve ==
    [fn |-> "none", security_id |-> EmptyStr, hit |-> FALSE,
     called |-> FALSE, raised |-> FALSE, ret |-> EmptyStr,
     resp |-> [kind |-> "none", data |-> EmptyDict]]

CountCalls(n, r, security_id) ==
    [n EXCEPT ![security_id] = @ + Len(r.calls)]

ResolverInit ==
    /\ \/ cache_kind = "name" /\ cache \in {EmptyDict, [x \in {SEC_1A} |-> STR_XEQT]}
       \/ cache_kind = "info" /\ cache \in {EmptyDict, [x \in {SEC_1A} |-> <<STR_XEQT, STR_ISHARES>>]}
    /\ market_calls = [i \in SecurityIds |-> 0]
    /\ resolved = NoResolve

ResolveName(security_id, resp) ==
    /\ cache_kind = "name"
    /\ market_calls[security_id] < MaxCalls
    /\ \E r \in {_get_security_name(MarketClient(resp), security_id, cache)} :
           /\ cache' = r.cache
           /\ market_calls' = CountCalls(market_calls, r, security_id)
           /\ resolved' = [fn |-> "name", security_id |-> security_id,
                           hit |-> security_id \in DOMAIN cache,
                           called |-> r.calls # <<>>, raised |-> r.raised,
                           ret |-> r.ret, resp |-> resp]
    /\ UNCHANGED <<cache_kind, world, accounts_vars, report_vars>>

ResolveInfo(security_id, resp) ==
    /\ cache_kind = "info"
    /\ market_calls[security_id] < MaxCalls
    /\ \E r \in {_get_security_info(MarketClient(resp), security_id, cache)} :
           /\ cache' = r.cache
           /\ market_calls' = CountCalls(market_calls, r, security_id)
           /\ resolved' = [fn |-> "info", security_id |-> security_id,
                           hit |-> security_id \in DOMAIN cache,
                           called |-> r.calls # <<>>, raised |-> r.raised,
                           ret |-> r.ret, resp |-> resp]
    /\ UNCHANGED <<cache_kind, world, accounts_vars, report_vars>>

ResolverNext ==
    \/ \E security_id \in SecurityIds, resp \in MarketResponses :
           ResolveName(security_id, resp)
    \/ \E security_id \in SecurityIds, resp \in MarketResponses :
           ResolveInfo(security_id, resp)

(***************************************************************************)
(* Accounts level: get_accounts_data on any upstream account list.         *)
(***************************************************************************)
MaxAccounts == 2

STR_TFSA == <<"T", "F", "S", "A">>

STR_MY_RRSP == <<"M", "y", " ", "R", "r", "S", "p">>

STR_LIRAX == <<"L", "I", "R", "A", "x">>

STR_PRIVATE_EQUITY == <<"P", "r", "i", "v", "a", "t", "e", " ", "E", "q", "u", "i", "t", "y">>

STR_PRIVATE_CREDIT_FUND == <<"P", "r", "i", "v", "a", "t", "e", " ", "C", "r", "e", "d", "i", "t", " ", "F", "u", "n", "d">>

STR_PRIVATE__EQUITY == <<"p", "r", "i", "v", "a", "t", "e", " ", " ", "e", "q", "u", "i", "t", "y">>

STR_ACC_001 == <<"A", "C", "C", "-", "0", "0", "1">>

AccountDescriptions ==
    {STR_TFSA, STR_MY_RRSP, STR_LIRAX, STR_PRIVATE_EQUITY,
     STR_PRIVATE_CREDIT_FUND, STR_PRIVATE__EQUITY}

NetLiquidation(v) == [currentCombined |-> [netLiquidationValue |-> v]]

\* no financials at all, a zero balance, a balance without a currency, a balance
AccountFinancials ==
    {EmptyDict,
     [financials |-> NetLiquidation([amount |-> 0, currency |-> STR_CAD])],
     [financials |-> NetLiquidation([amount |-> 150000, currency |-> STR_USD])]}

Merge(d, e) == [k \in (DOMAIN d) \cup (DOMAIN e) |-> IF k \in DOMAIN e THEN e[k] ELSE d[k]]

AccountPool ==
    {Merge([id |-> "acc-1", description |-> d, number |-> STR_ACC_001], f) :
        d \in AccountDescriptions, f \in AccountFinancials}
    \cup {Merge([id |-> "acc-2"], f) : f \in AccountFinancials}

NoAccountsCall ==
    [called |-> FALSE, show_zero_balances |-> FALSE, liquid_only |-> FALSE,
     not_liquid |-> FALSE, result |-> <<>>, valued |-> <<>>]

ResolverIdle ==
    /\ cache = EmptyDict
    /\ cache_kind = "name"
    /\ market_calls = [i \in SecurityIds |-> 0]
    /\ resolved = NoResolve

AccountsIdle == accounts_out = NoAccountsCall

NoReport ==
    [fn |-> "none", result |-> <<>>, calls |-> <<>>, raised |-> FALSE,
     cached |-> FALSE, refetched |-> FALSE]

\* before any print_* call
NoPrint ==
    [fn |-> "none", out |-> <<>>, raised |-> FALSE, data |-> <<>>, calls |-> <<>>,
     fetches |-> <<>>, formatter |-> "none"]

\* before get_authenticated_client is called
NoAuth == [pc |-> "none"]

AuthIdle == auth = NoAuth

ReportIdle ==
    /\ command = "none"
    /\ report_out = NoReport
    /\ activity_security_cache = EmptyDict
    /\ asset_security_cache = EmptyDict
    /\ printed = NoPrint
    /\ AuthIdle

AccountsInit ==
    /\ world \in {[EmptyWorld EXCEPT !.accounts = l] : l \in SeqsUpTo(AccountPool, MaxAccounts)}
    /\ accounts_out = NoAccountsCall
    /\ ResolverIdle
    /\ ReportIdle

GetAccountsData(show_zero_balances, liquid_only, not_liquid) ==
    /\ \E r \in {get_accounts_data(world, show_zero_balances, liquid_only, not_liquid)} :
           accounts_out' =
               [called |-> TRUE, show_zero_balances |-> show_zero_balances,
                liquid_only |-> liquid_only, not_liquid |-> not_liquid,
                result |-> r.result, valued |-> r.valued]
    /\ UNCHANGED <<resolver_vars, world, report_vars>>

AccountsNext ==
    \E show_zero_balances \in BOOLEAN, liquid_only \in BOOLEAN, not_liquid \in BOOLEAN :
        GetAccountsData(show_zero_balances, liquid_only, not_liquid)

SpecAccounts == AccountsInit /\ [][AccountsNext]_vars

(***************************************************************************)
(* Report level: get_activities_data and get_assets_data, called any       *)
(* number of times on one upstream world.  Each call is one step; what it  *)
(* returned, the market-data calls it made and the cache it ended with are *)
(* kept in the state.                                                      *)
(***************************************************************************)
MaxPositions == 2

MaxActivities == 2

STR_ACC_002 == <<"A", "C", "C", "-", "0", "0", "2">>

STR_VFV == <<"V", "F", "V">>

STR_VANGUARD == <<"V", "a", "n", "g", "u", "a", "r", "d", " ", "S", "&", "P", " ", "5", "0", "0", " ", "I", "n", "d", "e", "x", " ", "E", "T", "F", " ", "U", "n", "i", "t", "s">>

STR_POSITIVE == <<"p", "o", "s", "i", "t", "i", "v", "e">>

STR_NEGATIVE == <<"n", "e", "g", "a", "t", "i", "v", "e">>

ReportAccount1 == [id |-> "acc-1", description |-> STR_TFSA, number |-> STR_ACC_001]

ReportAccount2 == [id |-> "acc-2", description |-> STR_MY_RRSP, number |-> STR_ACC_002]

ReportAccountLists ==
    {<<>>, <<ReportAccount1>>, <<ReportAccount2, ReportAccount1>>}

\* what get_security_market_data answers for each identifier, the same
\* throughout one world
KnownXEQT ==
    [kind |-> "dict", data |-> [stock |-> [symbol |-> STR_XEQT, name |-> STR_ISHARES]]]

KnownVFV ==
    [kind |-> "dict", data |-> [stock |-> [symbol |-> STR_VFV, name |-> STR_VANGUARD]]]

ReportMarkets ==
    {[i \in SecurityIds |->
         IF i = SEC_1A THEN ab[1] ELSE IF i = SEC_2B THEN ab[2] ELSE RaiseResponse] :
        ab \in {<<RaiseResponse, RaiseResponse>>, <<KnownXEQT, RaiseResponse>>,
                <<KnownXEQT, KnownVFV>>}}

\* raw positions: a gain, a loss in another account and currency, a position
\* two accounts own with no gain, one without a book value, one with nothing
PositionPool ==
    {[quantity |-> 10, accounts |-> <<[id |-> "acc-1"]>>, security |-> [id |-> SEC_1A],
      totalValue |-> [amount |-> 2525, currency |-> STR_CAD],
      bookValue |-> [amount |-> 2400, currency |-> STR_CAD]],
     [quantity |-> 4, accounts |-> <<[id |-> "acc-2"]>>, security |-> [id |-> SEC_2B],
      totalValue |-> [amount |-> 800, currency |-> STR_USD],
      bookValue |-> [amount |-> 1000, currency |-> STR_USD]],
     [quantity |-> 1, accounts |-> <<[id |-> "acc-1"], [id |-> "acc-2"]>>,
      security |-> [id |-> SEC_1A],
      totalValue |-> [amount |-> 500],
      bookValue |-> [amount |-> 500]],
     [quantity |-> 2, accounts |-> <<[id |-> "acc-1"]>>, security |-> [id |-> SEC_2B],
      totalValue |-> [amount |-> 100, currency |-> STR_CAD]],
     [accounts |-> <<EmptyDict, [id |-> "acc-2"]>>, bookValue |-> [amount |-> 0]]}

\* raw activities: an id in brackets in the text, a reinvestment purchase
\* with a direct reference, one without any security, and a direct reference
\* (a dict) next to another id in the text.  Their occurredAt is a timestamp,
\* a well-formed timestamp of a day that does not exist, a text that is no
\* timestamp, and absent; their amount is positive, negative or absent.
ActivityDividend ==
    [type |-> <<"D", "I", "V", "I", "D", "E", "N", "D">>,
     description |-> <<"D", "i", "v", "i", "d", "e", "n", "d", " ", "[", "s", "e", "c", "-", "s", "-", "1", "a", "]">>,
     occurredAt |-> <<"2", "0", "2", "4", "-", "0", "1", "-", "1", "5", "T", "1", "0", ":", "3", "0", ":", "0", "0", "Z">>,
     amount |-> 1250, amountSign |-> STR_POSITIVE, currency |-> STR_CAD]

ActivityReinvest ==
    [type |-> STR_DIY_BUY,
     description |-> <<"b", "u", "y", " ", "1", "2", ".", "5", " ", "s", "h", "a", "r", "e", "s">>,
     security |-> [kind |-> "str", value |-> SEC_2B],
     occurredAt |-> <<"2", "0", "2", "4", "-", "0", "2", "-", "3", "0", "T", "0", "9", ":", "0", "0", ":", "0", "0", ".", "1", "2", "3", "+", "0", "5", ":", "3", "0">>,
     amount |-> -5000, amountSign |-> STR_NEGATIVE, currency |-> STR_USD]

ActivityWithdrawal ==
    [type |-> <<"W", "I", "T", "H", "D", "R", "A", "W", "A", "L">>,
     description |-> <<"W", "i", "t", "h", "d", "r", "a", "w", "a", "l">>,
     occurredAt |-> <<"y", "e", "s", "t", "e", "r", "d", "a", "y", " ", "a", "t", " ", "n", "o", "o", "n">>,
     amount |-> 10000, amountSign |-> STR_NEGATIVE, currency |-> STR_CAD]

ActivitySell ==
    [type |-> <<"V", "E", "R", "Y", "_", "L", "O", "N", "G", "_", "T", "Y", "P", "E", "_", "N", "A", "M", "E">>,
     description |-> <<"s", "e", "l", "l", " ", "s", "e", "c", "-", "s", "-", "2", "b", " ", "x">>,
     security |-> [kind |-> "dict", value |-> [id |-> SEC_1A]]]

ActivityPool == {ActivityDividend, ActivityReinvest, ActivityWithdrawal, ActivitySell}

\* what the second account holds: nothing, or a dividend of the security the
\* first account's activities may name too
OtherAccountActivities == {<<>>, <<ActivityDividend>>}

Limits == {0, 1, 2}

PnlFilters == {"none", "profit", "loss"}

\* the account_id argument: none, or the first account
AccountArguments == {NoAccount, "acc-1"}

\* the account_id argument of get_assets_data: none, or either account
AssetsAccountArguments == {NoAccount, "acc-1", "acc-2"}

ReportInit ==
    /\ \/ /\ command = "activities"
          /\ world \in {[accounts |-> l, activities |-> [a \in AccountIds |->
                                IF a = "acc-1" THEN x ELSE y],
                         positions |-> <<>>, market |-> m] :
                           l \in ReportAccountLists,
                           x \in SeqsUpTo(ActivityPool, MaxActivities),
                           y \in OtherAccountActivities,
                           m \in ReportMarkets}
       \/ /\ command = "assets"
          /\ world \in {[accounts |-> l, activities |-> [a \in AccountIds |-> <<>>],
                         positions |-> p, market |-> m] :
                           l \in ReportAccountLists,
                           p \in SeqsUpTo(PositionPool, MaxPositions),
                           m \in ReportMarkets}
    /\ report_out = NoReport
    /\ activity_security_cache = EmptyDict
    /\ asset_security_cache = EmptyDict
    /\ printed = NoPrint
    /\ AuthIdle
    /\ ResolverIdle
    /\ AccountsIdle

\* whether a call fetched an identifier that the call before it had fetched
Refetched(calls) ==
    \E i \in DOMAIN calls, j \in DOMAIN report_out.calls : calls[i] = report_out.calls[j]

ActivitiesReport(account_id, dividends_only, limit) ==
    /\ command = "activities"
    /\ \E r \in {get_activities_data(world, account_id, dividends_only, limit)} :
           /\ report_out' =
                  [fn |-> "activities", account_id |-> account_id,
                   dividends_only |-> dividends_only, limit |-> limit,
                   result |-> r.result, calls |-> r.calls, raised |-> r.raised,
                   cached |-> r.cached, refetched |-> Refetched(r.calls),
                   fetched |-> r.fetched]
           /\ activity_security_cache' = r.cache
    /\ UNCHANGED <<resolver_vars, accounts_vars, auth, world, command, asset_security_cache,
                   printed>>

AssetsReport(account_id, by_account, currency, pnl_filter) ==
    /\ command = "assets"
    /\ \E r \in {get_assets_data(world, account_id, by_account, currency, pnl_filter)} :
           /\ report_out' =
                  [fn |-> "assets", account_id |-> account_id,
                   by_account |-> by_account, currency |-> currency,
                   pnl_filter |-> pnl_filter,
                   result |-> r.result, calls |-> r.calls, raised |-> r.raised,
                   cached |-> r.cached, refetched |-> Refetched(r.calls)]
           /\ asset_security_cache' =
                  IF r.cached THEN r.cache ELSE asset_security_cache
    /\ UNCHANGED <<resolver_vars, accounts_vars, auth, world, command, activity_security_cache,
                   printed>>

ReportNext ==
    \/ \E account_id \in AccountArguments, dividends_only \in BOOLEAN,
          limit \in Limits :
           ActivitiesReport(account_id, dividends_only, limit)
    \/ \E account_id \in AssetsAccountArguments, by_account \in BOOLEAN,
          pnl_filter \in PnlFilters :
           AssetsReport(account_id, by_account, STR_CAD, pnl_filter)

SpecReport == ReportInit /\ [][ReportNext]_vars

(***************************************************************************)
(* Print level: one run of a command of the CLI, which calls one of        *)
(* print_accounts, print_activities and print_assets once on the upstream  *)
(* world.  The call is one step; the blocks it printed and the view models *)
(* it printed them from are kept.                                          *)
(***************************************************************************)
STR_TABLE_UPPER == <<"T", "A", "B", "L", "E">>

STR_XML == <<"x", "m", "l">>

\* the three keys of get_formatter, a key in another letter case and a key
\* that is none of the three
OutputFormats == {STR_TABLE, STR_JSON, STR_CSV, STR_TABLE_UPPER, STR_XML}

\* the currency argument: the default and another
Currencies == {STR_CAD, STR_USD}

\* two accounts in either order, or the first alone
PrintAccountLists ==
    {<<ReportAccount1>>, <<ReportAccount1, ReportAccount2>>,
     <<ReportAccount2, ReportAccount1>>}

\* both identifiers known to the market-data capability
PrintMarket == [i \in SecurityIds |->
                   IF i = SEC_1A THEN KnownXEQT ELSE IF i = SEC_2B THEN KnownVFV
                   ELSE RaiseResponse]

\* accounts with a value: US dollars, Canadian dollars, nothing, and a
\* registered account in Canadian dollars
PrintAccountPool ==
    {[id |-> "acc-1", description |-> STR_TFSA, number |-> STR_ACC_001,
      financials |-> NetLiquidation([amount |-> 1500, currency |-> STR_USD])],
     [id |-> "acc-2", description |-> STR_MY_RRSP, number |-> STR_ACC_002,
      financials |-> NetLiquidation([amount |-> 200, currency |-> STR_CAD])],
     [id |-> "acc-1", description |-> STR_LIRAX, number |-> STR_ACC_001,
      financials |-> NetLiquidation([amount |-> 0, currency |-> STR_CAD])],
     [id |-> "acc-2"]}

PrintInit ==
    /\ \/ /\ command = "accounts"
          /\ world \in {[EmptyWorld EXCEPT !.accounts = l] :
                           l \in SeqsUpTo(PrintAccountPool, MaxAccounts)}
       \/ /\ command = "activities"
          /\ world \in {[accounts |-> l, activities |-> [a \in AccountIds |->
                                IF a = "acc-1" THEN x ELSE y],
                         positions |-> <<>>, market |-> PrintMarket] :
                           l \in PrintAccountLists,
                           x \in SeqsUpTo(ActivityPool, MaxActivities),
                           y \in OtherAccountActivities}
       \/ /\ command = "assets"
          /\ world \in {[accounts |-> l, activities |-> [a \in AccountIds |-> <<>>],
                         positions |-> p, market |-> PrintMarket] :
                           l \in PrintAccountLists,
                           p \in SeqsUpTo(PositionPool, MaxPositions)}
    /\ report_out = NoReport
    /\ activity_security_cache = EmptyDict
    /\ asset_security_cache = EmptyDict
    /\ printed = NoPrint
    /\ AuthIdle
    /\ ResolverIdle
    /\ AccountsIdle

PrintAccounts(show_zero_balances, liquid_only, not_liquid, output_format) ==
    /\ command = "accounts"
    /\ printed = NoPrint
    /\ \E r \in {print_accounts(world, show_zero_balances, liquid_only, not_liquid,
                                 output_format)} :
           printed' = [fn |-> "print_accounts", show_zero_balances |-> show_zero_balances,
                       liquid_only |-> liquid_only, not_liquid |-> not_liquid,
                       output_format |-> output_format,
                       out |-> r.out, raised |-> r.raised, data |-> r.data,
                       calls |-> r.calls, fetches |-> r.fetches,
                       formatter |-> r.formatter]
    /\ UNCHANGED <<resolver_vars, accounts_vars, auth, world, command, report_out,
                   activity_security_cache, asset_security_cache>>

PrintActivities(account_id, dividends_only, limit, output_format) ==
    /\ command = "activities"
    /\ printed = NoPrint
    /\ \E r \in {print_activities(world, account_id, dividends_only, limit,
                                   output_format)} :
           printed' = [fn |-> "print_activities", account_id |-> account_id,
                       dividends_only |-> dividends_only, limit |-> limit,
                       output_format |-> output_format,
                       out |-> r.out, raised |-> r.raised, data |-> r.data,
                       calls |-> r.calls, fetches |-> r.fetches,
                       formatter |-> r.formatter]
    /\ UNCHANGED <<resolver_vars, accounts_vars, auth, world, command, report_out,
                   activity_security_cache, asset_security_cache>>

PrintAssets(account_id, by_account, currency, output_format, pnl_filter) ==
    /\ command = "assets"
    /\ printed = NoPrint
    /\ \E r \in {print_assets(world, account_id, by_account, currency, output_format,
                               pnl_filter)} :
           printed' = [fn |-> "print_assets", account_id |-> account_id,
                       by_account |-> by_account, currency |-> currency,
                       output_format |-> output_format, pnl_filter |-> pnl_filter,
                       out |-> r.out, raised |-> r.raised, data |-> r.data,
                       calls |-> r.calls, fetches |-> r.fetches,
                       formatter |-> r.formatter]
    /\ UNCHANGED <<resolver_vars, accounts_vars, auth, world, command, report_out,
                   activity_security_cache, asset_security_cache>>

PrintNext ==
    \/ \E show_zero_balances \in BOOLEAN, liquid_only \in BOOLEAN, not_liquid \in BOOLEAN,
          output_format \in OutputFormats :
           PrintAccounts(show_zero_balances, liquid_only, not_liquid, output_format)
    \/ \E account_id \in AccountArguments, dividends_only \in BOOLEAN, limit \in Limits,
          output_format \in OutputFormats :
           PrintActivities(account_id, dividends_only, limit, output_format)
    \/ \E account_id \in AccountArguments, by_account \in BOOLEAN,
          currency \in Currencies, output_format \in OutputFormats,
          pnl_filter \in PnlFilters :
           PrintAssets(account_id, by_account, currency, output_format, pnl_filter)

SpecPrint == PrintInit /\ [][PrintNext]_vars

(***************************************************************************)
(* Formatter level: one call of a formatter method, reached through        *)
(* get_formatter, on the view models of an upstream world, the empty       *)
(* sequence among them.  A formatter keeps no state between calls, so one  *)
(* call is one behaviour.                                                  *)
(***************************************************************************)
STR_TFSA_LABEL == _build_account_label(ReportAccount1)

\* the group_label argument: absent, empty, or an account's label
GroupLabels == {None, EmptyStr, STR_TFSA_LABEL}

FormatInit ==
    /\ \/ /\ command = "format_accounts"
          /\ world \in {[EmptyWorld EXCEPT !.accounts = l] :
                           l \in SeqsUpTo(PrintAccountPool, MaxAccounts)}
       \/ /\ command = "format_activities"
          /\ world \in {[accounts |-> <<ReportAccount1>>,
                         activities |-> [a \in AccountIds |->
                                            IF a = "acc-1" THEN x ELSE <<>>],
                         positions |-> <<>>, market |-> PrintMarket] :
                           x \in SeqsUpTo(ActivityPool, MaxActivities)}
       \/ /\ command = "format_positions"
          /\ world \in {[accounts |-> <<ReportAccount1>>,
                         activities |-> [a \in AccountIds |-> <<>>],
                         positions |-> p, market |-> PrintMarket] :
                           p \in SeqsUpTo(PositionPool, MaxPositions)}
    /\ report_out = NoReport
    /\ activity_security_cache = EmptyDict
    /\ asset_security_cache = EmptyDict
    /\ printed = NoPrint
    /\ AuthIdle
    /\ ResolverIdle
    /\ AccountsIdle

FormatAccounts(format_type) ==
    /\ command = "format_accounts"
    /\ printed = NoPrint
    /\ \E accounts \in {get_accounts_data(world, TRUE, FALSE, FALSE).result} :
           printed' = [fn |-> "format_accounts", format_type |-> format_type,
                       out |-> <<format_accounts(format_type, accounts)>>,
                       raised |-> FALSE, data |-> accounts, calls |-> <<>>,
                       fetches |-> <<>>,
                       formatter |-> get_formatter(format_type)]
    /\ UNCHANGED <<resolver_vars, accounts_vars, auth, world, command, report_out,
                   activity_security_cache, asset_security_cache>>

FormatActivities(format_type) ==
    /\ command = "format_activities"
    /\ printed = NoPrint
    /\ \E activities \in {get_activities_data(world, NoAccount, FALSE, MaxActivities).result} :
           printed' = [fn |-> "format_activities", format_type |-> format_type,
                       out |-> <<format_activities(format_type, activities)>>,
                       raised |-> FALSE, data |-> activities, calls |-> <<>>,
                       fetches |-> <<>>,
                       formatter |-> get_formatter(format_type)]
    /\ UNCHANGED <<resolver_vars, accounts_vars, auth, world, command, report_out,
                   activity_security_cache, asset_security_cache>>

FormatPositions(format_type, show_totals, group_label) ==
    /\ command = "format_positions"
    /\ printed = NoPrint
    /\ \E positions \in {get_assets_data(world, NoAccount, FALSE, STR_CAD, "none").result} :
           printed' = [fn |-> "format_positions", format_type |-> format_type,
                       show_totals |-> show_totals, group_label |-> group_label,
                       out |-> <<format_positions(format_type, positions, show_totals,
                                                  group_label)>>,
                       raised |-> FALSE, data |-> positions, calls |-> <<>>,
                       fetches |-> <<>>,
                       formatter |-> get_formatter(format_type)]
    /\ UNCHANGED <<resolver_vars, accounts_vars, auth, world, command, report_out,
                   activity_security_cache, asset_security_cache>>

FormatNext ==
    \/ \E format_type \in OutputFormats : FormatAccounts(format_type)
    \/ \E format_type \in OutputFormats : FormatActivities(format_type)
    \/ \E format_type \in OutputFormats, show_totals \in BOOLEAN,
          group_label \in GroupLabels :
           FormatPositions(format_type, show_totals, group_label)

SpecFormat == FormatInit /\ [][FormatNext]_vars

(***************************************************************************)
(* Command level: one run of the list, activities or assets command on an  *)
(* upstream whose fetches may raise.                                       *)
(***************************************************************************)
Failures ==
    [get_accounts : BOOLEAN, get_identity_positions : BOOLEAN,
     get_activities : SUBSET AccountIds]

\* the --account option: not given, the number of the first account, the
\* number of no account
AccountOptions == {EmptyStr, STR_ACC_001, STR_NA}

CliFormats == {STR_TABLE, STR_JSON}

CliInit ==
    /\ \/ /\ command = "list"
          /\ world \in {[accounts |-> l, activities |-> [a \in AccountIds |-> <<>>],
                         positions |-> <<>>, market |-> PrintMarket, raises |-> f] :
                           l \in SeqsUpTo(PrintAccountPool, MaxAccounts),
                           f \in {g \in Failures : ~g.get_identity_positions
                                                   /\ g.get_activities = {}}}
       \/ /\ command = "activities"
          /\ world \in {[accounts |-> l, activities |-> [a \in AccountIds |->
                                IF a = "acc-1" THEN x ELSE y],
                         positions |-> <<>>, market |-> PrintMarket, raises |-> f] :
                           l \in PrintAccountLists,
                           x \in SeqsUpTo({ActivityDividend, ActivityWithdrawal},
                                          MaxActivities),
                           y \in OtherAccountActivities,
                           f \in {g \in Failures : ~g.get_identity_positions}}
       \/ /\ command = "assets"
          /\ world \in {[accounts |-> l, activities |-> [a \in AccountIds |-> <<>>],
                         positions |-> p, market |-> PrintMarket, raises |-> f] :
                           l \in PrintAccountLists,
                           p \in SeqsUpTo({q \in PositionPool : "security" \in DOMAIN q
                                                                /\ "bookValue" \in DOMAIN q},
                                          MaxPositions),
                           f \in {g \in Failures : g.get_activities = {}}}
    /\ report_out = NoReport
    /\ activity_security_cache = EmptyDict
    /\ asset_security_cache = EmptyDict
    /\ printed = NoPrint
    /\ AuthIdle
    /\ ResolverIdle
    /\ AccountsIdle

CliList(show_zero_balances, liquid_only, not_liquid, output_format) ==
    /\ command = "list"
    /\ printed = NoPrint
    /\ \E r \in {cli_list_accounts_cmd(world, show_zero_balances, liquid_only, not_liquid,
                                        output_format)} :
           printed' = [fn |-> "list", out |-> r.out, exit_code |-> r.exit_code,
                       fetches |-> r.fetches, raised |-> r.raised]
    /\ UNCHANGED <<resolver_vars, accounts_vars, auth, world, command, report_out,
                   activity_security_cache, asset_security_cache>>

CliActivities(account, dividends_only, limit, output_format) ==
    /\ command = "activities"
    /\ printed = NoPrint
    /\ \E r \in {cli_activities(world, account, dividends_only, limit, output_format)} :
           printed' = [fn |-> "activities", account |-> account,
                       out |-> r.out, exit_code |-> r.exit_code,
                       fetches |-> r.fetches, raised |-> r.raised]
    /\ UNCHANGED <<resolver_vars, accounts_vars, auth, world, command, report_out,
                   activity_security_cache, asset_security_cache>>

CliAssets(account, by_account, profits, losses, output_format) ==
    /\ command = "assets"
    /\ printed = NoPrint
    /\ \E r \in {cli_assets(world, account, by_account, profits, losses, output_format)} :
           printed' = [fn |-> "assets", account |-> account, by_account |-> by_account,
                       out |-> r.out, exit_code |-> r.exit_code,
                       fetches |-> r.fetches, raised |-> r.raised]
    /\ UNCHANGED <<resolver_vars, accounts_vars, auth, world, command, report_out,
                   activity_security_cache, asset_security_cache>>

CliNext ==
    \/ \E show_zero_balances \in BOOLEAN, liquid_only \in BOOLEAN, not_liquid \in BOOLEAN,
          output_format \in CliFormats :
           CliList(show_zero_balances, liquid_only, not_liquid, output_format)
    \/ \E account \in AccountOptions, dividends_only \in BOOLEAN,
          output_format \in CliFormats :
           CliActivities(account, dividends_only, MaxActivities, output_format)
    \/ \E account \in AccountOptions, by_account \in BOOLEAN, profits \in BOOLEAN,
          losses \in BOOLEAN, output_format \in CliFormats :
           CliAssets(account, by_account, profits, losses, output_format)

SpecCli == CliInit /\ [][CliNext]_vars

(***************************************************************************)
(* Description level: _enhance_description called any number of times on   *)
(* activities of any shape, with one client and one cache.                 *)
(***************************************************************************)

\* activities without a security: no reference and no identifier in the
\* text, a reinvestment with a quantity but no identifier, a falsy reference
\* next to a text that only looks like an identifier, and an empty reference
\* dict with no description at all
ActivityPlainBuy ==
    [type |-> STR_DIY_BUY,
     description |-> <<"b", "u", "y", " ", "2", " ", "u", "n", "i", "t", "s">>]

ActivityNearMiss ==
    [type |-> STR_DIY_BUY,
     description |-> <<"b", "u", "y", " ", "3", " ", "s", "e", "c", "-", "S", "-", "1", "a", " ", "s", "e", "c", "-", "s", "-", "x">>,
     security |-> [kind |-> "str", value |-> EmptyStr]]

ActivityBare ==
    [type |-> <<"F", "E", "E">>, security |-> [kind |-> "dict", value |-> EmptyDict]]

EnhancePool ==
    ActivityPool \cup {ActivityPlainBuy, ActivityNearMiss, ActivityBare}

EnhanceInit ==
    /\ cache_kind = "name"
    /\ cache \in {EmptyDict, [x \in {SEC_1A} |-> STR_XEQT]}
    /\ market_calls = [i \in SecurityIds |-> 0]
    /\ resolved = NoResolve
    /\ world \in {[EmptyWorld EXCEPT !.market = m] : m \in ReportMarkets}
    /\ AccountsIdle
    /\ ReportIdle

EnhanceDescription(activity) ==
    /\ \E r \in {_enhance_description(world, activity, cache)} :
           /\ cache' = r.cache
           /\ market_calls' = [i \in SecurityIds |->
                                  market_calls[i]
                                      + Cardinality({k \in DOMAIN r.calls : r.calls[k] = i})]
           /\ resolved' = [fn |-> "enhance", activity |-> activity,
                           called |-> r.calls # <<>>, raised |-> r.raised,
                           ret |-> r.ret]
    /\ UNCHANGED <<cache_kind, world, accounts_vars, report_vars>>

EnhanceNext == \E activity \in EnhancePool : EnhanceDescription(activity)

SpecEnhance == EnhanceInit /\ [][EnhanceNext]_vars

(***************************************************************************)
(* Authentication level: one call of get_authenticated_client.  Its steps  *)
(* are the lookup of the username, the attempt to restore a session and    *)
(* the passes of the login loop; the loop has no bound in the code and is  *)
(* cut off after MaxAttempts passes here.                                  *)
(***************************************************************************)
MaxAttempts == 3

STR_SECRET == <<"p", "w">>

STR_OTP == <<"1", "2", "3">>

\* what the user types at the password prompt and at the code prompt:
\* something, or nothing
EnteredPasswords == {STR_SECRET, EmptyStr}

EnteredOtps == {STR_OTP, EmptyStr}

Keyrings ==
    [last_email : {None, STR_EMAIL}, session : [Usernames -> {None, SESSION_JSON}]]

AuthInit ==
    /\ auth \in {[pc |-> "start", keyring |-> k, keyring_at_start |-> k] : k \in Keyrings}
    /\ command = "login"
    /\ world = EmptyWorld
    /\ report_out = NoReport
    /\ activity_security_cache = EmptyDict
    /\ asset_security_cache = EmptyDict
    /\ printed = NoPrint
    /\ ResolverIdle
    /\ AccountsIdle

\* get_authenticated_client up to its branch on force_login
GetAuthenticatedClient(force_login, username, entered) ==
    /\ auth.pc = "start"
    /\ auth' = [pc |-> IF force_login THEN "login" ELSE "restore",
                force_login |-> force_login,
                username |-> _get_username(username, auth.keyring, entered),
                keyring |-> auth.keyring, keyring_at_start |-> auth.keyring_at_start,
                restore |-> [tried |-> FALSE],
                password |-> None, otp_answer |-> None, attempts |-> <<>>,
                ret |-> None]
    /\ UNCHANGED <<resolver_vars, accounts_vars, world, command, report_out,
                   activity_security_cache, asset_security_cache, printed>>

\* `ws = _try_restore_session(...)`, `if ws: return ws`, else on to
\* _perform_login
TryRestoreSession(outcome) ==
    /\ auth.pc = "restore"
    /\ \E r \in {_try_restore_session(auth.username, auth.keyring, outcome)} :
           auth' = [auth EXCEPT
                       !.pc = IF r.ws # None THEN "returned" ELSE "login",
                       !.ret = r.ws,
                       !.restore = [tried |-> TRUE,
                                    stored |-> TruthyLabel(auth.keyring.session[auth.username]),
                                    outcome |-> outcome,
                                    get_accounts |-> r.get_accounts]]
    /\ UNCHANGED <<resolver_vars, accounts_vars, world, command, report_out,
                   activity_security_cache, asset_security_cache, printed>>

\* one pass of the loop of _perform_login
LoginAttempt(entered_password, outcome, entered_otp) ==
    /\ auth.pc = "login"
    /\ Len(auth.attempts) < MaxAttempts
    /\ \E r \in {_perform_login(auth.username, auth.password, auth.otp_answer,
                                 auth.keyring, entered_password, outcome, entered_otp)} :
           auth' = [auth EXCEPT
                       !.pc = IF r.returned THEN "returned" ELSE "login",
                       !.ret = r.ret,
                       !.password = r.password,
                       !.otp_answer = r.otp_answer,
                       !.keyring = r.keyring,
                       !.attempts = Append(@, r.attempt)]
    /\ UNCHANGED <<resolver_vars, accounts_vars, world, command, report_out,
                   activity_security_cache, asset_security_cache, printed>>

AuthNext ==
    \/ \E force_login \in BOOLEAN, username \in {None, STR_OTHER_EMAIL} :
           GetAuthenticatedClient(force_login, username, STR_EMAIL)
    \/ \E outcome \in RestoreOutcomes : TryRestoreSession(outcome)
    \/ \E entered_password \in EnteredPasswords, outcome \in LoginOutcomes,
          entered_otp \in EnteredOtps :
           LoginAttempt(entered_password, outcome, entered_otp)

SpecAuth == AuthInit /\ [][AuthNext]_vars

Init ==
    /\ ResolverInit
    /\ world = EmptyWorld
    /\ AccountsIdle
    /\ ReportIdle

Next == ResolverNext

Spec == Init /\ [][Next]_vars

(***************************************************************************)
(* Properties of the resolvers                                             *)
(***************************************************************************)

\* C1: over any sequence of resolve calls sharing one cache, the market-data
\* capability is called at most once per security identifier, and a call for
\* an identifier that is in the cache makes no external call at all (the
\* count of every cached identifier stays as it is), whatever the first
\* lookup answered.
C1_FetchedAtMostOnce ==
    /\ [](\A i \in SecurityIds : market_calls[i] <= 1)
    /\ [][\A i \in DOMAIN cache : market_calls'[i] = market_calls[i]]_vars

\* a second resolution of an identifier whose first lookup fell back to the
\* identifier (it raised, or gave no usable stock record)
C1_Witness ==
    /\ resolved.fn = "name"
    /\ resolved.hit
    /\ resolved.security_id = SEC_2B
    /\ resolved.ret = SEC_2B
    /\ resolved.resp.kind = "dict"
    /\ market_calls[SEC_2B] = 1

\* C2: a resolve call that is not a cache hit leaves cache[security_id] equal
\* to the value it returns (the empty identifier and the fallbacks included),
\* and no resolve call changes or removes an entry the cache already held.
C2_CacheWriteOnce ==
    /\ [](resolved.fn # "none" /\ ~resolved.hit =>
             /\ resolved.security_id \in DOMAIN cache
             /\ cache[resolved.security_id] = resolved.ret)
    /\ [][\A i \in DOMAIN cache : i \in DOMAIN cache' /\ cache'[i] = cache[i]]_vars

\* the empty identifier resolved by the assets resolver and cached as the
\* sentinel pair, next to an entry the cache held from the start
C2_Witness ==
    /\ resolved.fn = "info"
    /\ ~resolved.hit
    /\ resolved.security_id = EmptyStr
    /\ EmptyStr \in DOMAIN cache
    /\ cache[EmptyStr] = <<STR_NA, STR_UNKNOWN>>
    /\ SEC_1A \in DOMAIN cache

\* the stock dict of a response, {} when it holds none
StockOf(resp) ==
    IF resp.kind = "dict" /\ "stock" \in DOMAIN resp.data THEN resp.data.stock ELSE EmptyDict

\* symbol if non-empty, else name if non-empty, else the identifier
PreferSymbol(stock, security_id) ==
    IF "symbol" \in DOMAIN stock /\ stock.symbol # EmptyStr THEN stock.symbol
    ELSE IF "name" \in DOMAIN stock /\ stock.name # EmptyStr THEN stock.name
    ELSE security_id

\* C5: _get_security_name on an identifier that is not cached returns the
\* stock's symbol if non-empty, else the stock's name if non-empty, else the
\* identifier; the identifier also when the call raised, when the response is
\* empty or holds no stock record, and when the identifier is empty, in which
\* case no external call is made.
C5_NamePreference ==
    resolved.fn = "name" /\ ~resolved.hit =>
        /\ ~resolved.raised
        /\ resolved.called = (resolved.security_id # EmptyStr)
        /\ resolved.ret =
             IF resolved.security_id = EmptyStr \/ resolved.resp.kind # "dict"
             THEN resolved.security_id
             ELSE PreferSymbol(StockOf(resolved.resp), resolved.security_id)

\* the symbol is empty and the name is used
C5_Witness ==
    /\ resolved.fn = "name"
    /\ ~resolved.hit
    /\ resolved.resp.kind = "dict"
    /\ StockOf(resolved.resp) = [symbol |-> EmptyStr, name |-> STR_ISHARES]
    /\ resolved.ret = STR_ISHARES

\* C6: _get_security_info, when the call succeeds with a stock record,
\* returns as symbol the stock's symbol if non-empty, else the stock's name,
\* else the identifier.
C6_InfoSymbolPreference ==
    /\ resolved.fn = "info"
    /\ ~resolved.hit
    /\ resolved.security_id # EmptyStr
    /\ HasStock(resolved.resp)
    => resolved.ret[1] = PreferSymbol(StockOf(resolved.resp), resolved.security_id)

(***************************************************************************)
(* Properties of get_accounts_data                                         *)
(***************************************************************************)
LiquidityKeywords ==
    { <<"r", "r", "s", "p">>,
      <<"l", "i", "r", "a">>,
      <<"p", "r", "i", "v", "a", "t", "e", " ", "e", "q", "u", "i", "t", "y">>,
      <<"p", "r", "i", "v", "a", "t", "e", " ", "c", "r", "e", "d", "i", "t">> }

RawDescription(account) ==
    IF "description" \in DOMAIN account THEN account.description ELSE STR_UNKNOWN_ACCOUNT

\* the lower-cased description contains one of the four substrings
NamesNonLiquid(account) ==
    \E k \in LiquidityKeywords : Contains(lower(RawDescription(account)), k)

\* the net liquidation amount of a raw account, zero when absent
RawAmount(account) ==
    IF /\ "financials" \in DOMAIN account
       /\ "currentCombined" \in DOMAIN account.financials
       /\ "netLiquidationValue" \in DOMAIN account.financials.currentCombined
       /\ "amount" \in DOMAIN account.financials.currentCombined.netLiquidationValue
    THEN account.financials.currentCombined.netLiquidationValue.amount
    ELSE 0

\* the view models (description, value) stand for the raw accounts, in order
ViewsOf(result, accounts) ==
    /\ Len(result) = Len(accounts)
    /\ \A i \in 1..Len(result) :
           /\ result[i].description = RawDescription(accounts[i])
           /\ result[i].value = RawAmount(accounts[i])

Range(f) == {f[i] : i \in DOMAIN f}

\* C7: with show_zero_balances and liquid_only set (not_liquid unset),
\* get_accounts_data returns exactly, in upstream order, the accounts whose
\* lower-cased description contains none of 'rrsp', 'lira', 'private equity',
\* 'private credit' as a substring.
C7_LiquidOnlyExact ==
    /\ accounts_out.called
    /\ accounts_out.show_zero_balances
    /\ accounts_out.liquid_only
    /\ ~accounts_out.not_liquid
    => ViewsOf(accounts_out.result,
               SelectSeq(world.accounts, LAMBDA a : ~NamesNonLiquid(a)))

\* 'LIRAx' (a substring match in another letter case) is dropped and the
\* near miss 'private  equity' is kept
C7_Witness ==
    /\ accounts_out.called
    /\ accounts_out.show_zero_balances
    /\ accounts_out.liquid_only
    /\ ~accounts_out.not_liquid
    /\ Len(world.accounts) = 2
    /\ RawDescription(world.accounts[1]) = STR_LIRAX
    /\ Len(accounts_out.result) = 1
    /\ accounts_out.result[1].description = STR_PRIVATE__EQUITY

\* the result of get_accounts_data on the same upstream accounts and the same
\* show_zero_balances with other liquidity flags; the call made is read from
\* the state
AccountsWith(liquid_only, not_liquid) ==
    IF accounts_out.liquid_only = liquid_only /\ accounts_out.not_liquid = not_liquid
    THEN accounts_out.result
    ELSE get_accounts_data(world, accounts_out.show_zero_balances,
                           liquid_only, not_liquid).result

\* C8: for one account list and one show_zero_balances setting, the accounts
\* returned with not_liquid alone and those returned with liquid_only alone
\* are disjoint, and together they are the accounts returned with neither.
C8_LiquidPartition ==
    accounts_out.called /\ ~(accounts_out.liquid_only /\ accounts_out.not_liquid) =>
        /\ Range(AccountsWith(TRUE, FALSE)) \cap Range(AccountsWith(FALSE, TRUE)) = {}
        /\ Range(AccountsWith(TRUE, FALSE)) \cup Range(AccountsWith(FALSE, TRUE))
               = Range(AccountsWith(FALSE, FALSE))
        /\ Len(AccountsWith(TRUE, FALSE)) + Len(AccountsWith(FALSE, TRUE))
               = Len(AccountsWith(FALSE, FALSE))

\* a not_liquid call on a list holding one account of each kind
C8_Witness ==
    /\ accounts_out.called
    /\ accounts_out.not_liquid
    /\ ~accounts_out.liquid_only
    /\ Len(accounts_out.result) = 1
    /\ Len(AccountsWith(TRUE, FALSE)) = 1
    /\ Len(AccountsWith(FALSE, FALSE)) = 2

PassesLiquidity(account) ==
    /\ ~(accounts_out.liquid_only /\ NamesNonLiquid(account))
    /\ ~(accounts_out.not_liquid /\ ~NamesNonLiquid(account))

\* C9: an account whose net liquidation amount is zero or absent is returned
\* exactly when show_zero_balances is set and it passes the liquidity
\* filters; an account with another amount is returned exactly when it
\* passes them; and the amount is read (for the zero test) only of the
\* accounts that passed the liquidity filters.
C9_ZeroBalanceAfterLiquidity ==
    accounts_out.called =>
        /\ ViewsOf(accounts_out.result,
                   SelectSeq(world.accounts,
                             LAMBDA a : /\ PassesLiquidity(a)
                                        /\ (RawAmount(a) # 0 \/ accounts_out.show_zero_balances)))
        /\ accounts_out.valued =
               SelectSeq([i \in 1..Len(world.accounts) |-> i],
                         LAMBDA i : PassesLiquidity(world.accounts[i]))

\* an account without financials dropped by the zero test after it passed
\* the liquidity filter, next to one the liquidity filter dropped unread
C9_Witness ==
    /\ accounts_out.called
    /\ ~accounts_out.show_zero_balances
    /\ accounts_out.liquid_only
    /\ Len(world.accounts) = 2
    /\ "financials" \notin DOMAIN world.accounts[1]
    /\ accounts_out.valued = <<1>>
    /\ accounts_out.result = <<>>


(***************************************************************************)
(* Properties of the reports                                               *)
(***************************************************************************)
NoDuplicates(seq) == \A i, j \in DOMAIN seq : seq[i] = seq[j] => i = j

\* the upstream says a position belongs to an account
OwnedBy(position, account_id) ==
    \E k \in DOMAIN Get(position, "accounts", <<>>) :
        Get(Get(position, "accounts", <<>>)[k], "id", NoAccount) = account_id

\* the upstream positions the last call of get_assets_data was asked about
ScopedPositions ==
    IF report_out.account_id = NoAccount THEN world.positions
    ELSE SelectSeq(world.positions, LAMBDA p : OwnedBy(p, report_out.account_id))

\* the security identifier an upstream position carries, "" when it has none
SecurityIdOf(position) == Get(Get(position, "security", EmptyDict), "id", EmptyStr)

\* the call repeats the arguments of the call before it
SameArguments ==
    /\ report_out.fn # "none"
    /\ report_out'.fn = report_out.fn
    /\ report_out'.account_id = report_out.account_id
    /\ report_out.fn = "activities" =>
           /\ report_out'.dividends_only = report_out.dividends_only
           /\ report_out'.limit = report_out.limit
    /\ report_out.fn = "assets" =>
           /\ report_out'.by_account = report_out.by_account
           /\ report_out'.pnl_filter = report_out.pnl_filter

\* the cache of the last call holds exactly what that call fetched
FetchedInThisCall(security_cache) ==
    /\ NoDuplicates(report_out.calls)
    /\ (DOMAIN security_cache) \ {EmptyStr} = Range(report_out.calls)

\* C3: every call of get_activities_data or get_assets_data works on one cache
\* of its own that starts empty: within the call no identifier is fetched
\* twice, whatever the number of accounts and records that name it, every
\* entry of the cache at the end was fetched by this call, an aggregated
\* assets call fetches exactly the identifiers of the positions it was asked
\* about, and a call that repeats the arguments of the call before it fetches
\* the same identifiers again.
C3_CachePerInvocation ==
    /\ [](/\ report_out.fn = "activities" => FetchedInThisCall(activity_security_cache)
          /\ report_out.fn = "assets" =>
                 /\ report_out.cached => FetchedInThisCall(asset_security_cache)
                 /\ ~report_out.cached => report_out.calls = <<>>
                 /\ report_out.cached /\ ~report_out.by_account =>
                        Range(report_out.calls) =
                            {SecurityIdOf(ScopedPositions[i]) : i \in DOMAIN ScopedPositions}
                                \ {EmptyStr})
    /\ [][SameArguments =>
              /\ report_out'.calls = report_out.calls
              /\ report_out'.refetched = (report_out.calls # <<>>)]_vars

\* both accounts hold a dividend of the same security; an all-accounts call
\* fetched it once, and the call before had fetched it too
C3_Witness ==
    /\ report_out.fn = "activities"
    /\ report_out.account_id = NoAccount
    /\ Len(world.accounts) = 2
    /\ world.activities["acc-1"] = <<ActivityDividend>>
    /\ world.activities["acc-2"] = <<ActivityDividend>>
    /\ Len(report_out.result) = 2
    /\ report_out.result[1].account_label # report_out.result[2].account_label
    /\ report_out.calls = <<SEC_1A>>
    /\ report_out.refetched

\* get_security_market_data raises for the identifier
LookupRaises(security_id) == world.market[security_id].kind = "raise"

\* the number of records get_activities_data is to return when nothing is
\* filtered out: at most limit for each account asked about
RECURSIVE ExpectedActivities(_, _)
ExpectedActivities(account_ids, limit) ==
    IF account_ids = <<>> THEN 0
    ELSE LET n == Len(world.activities[Head(account_ids)])
         IN  (IF n < limit THEN n ELSE limit) + ExpectedActivities(Tail(account_ids), limit)

\* C4: a lookup that raises for a non-empty identifier aborts nothing: no
\* exception leaves get_activities_data or get_assets_data, the resolver's
\* answer (the cache entry) is the raw identifier (twice, as symbol and name,
\* for assets), and the report holds a view model for every record: every
\* activity up to the limit when none is filtered out, every position asked
\* about in the aggregated unfiltered view, the position of a failed lookup
\* carrying the identifier as symbol and name.
C4_LookupFailureRecovered ==
    /\ ~report_out.raised
    /\ report_out.fn = "activities" =>
           /\ \A id \in Range(report_out.calls) :
                  LookupRaises(id) => activity_security_cache[id] = id
           /\ ~report_out.dividends_only =>
                  Len(report_out.result) =
                      ExpectedActivities(
                          IF report_out.account_id # NoAccount
                          THEN <<report_out.account_id>>
                          ELSE [i \in DOMAIN world.accounts |-> world.accounts[i].id],
                          report_out.limit)
    /\ report_out.fn = "assets" /\ report_out.cached =>
           /\ \A id \in Range(report_out.calls) :
                  LookupRaises(id) => asset_security_cache[id] = <<id, id>>
           /\ ~report_out.by_account /\ report_out.pnl_filter = "none" =>
                  /\ Len(report_out.result) = Len(ScopedPositions)
                  /\ \A i \in DOMAIN ScopedPositions :
                         LET id == SecurityIdOf(ScopedPositions[i])
                         IN  id # EmptyStr /\ LookupRaises(id) =>
                                 /\ report_out.result[i].symbol = id
                                 /\ report_out.result[i].name = Prefix(id, 30)

\* the first lookup of a call failed, a later one succeeded, and both
\* activities are in the report
C4_Witness ==
    /\ report_out.fn = "activities"
    /\ report_out.calls = <<SEC_2B, SEC_1A>>
    /\ LookupRaises(SEC_2B)
    /\ ~LookupRaises(SEC_1A)
    /\ Len(report_out.result) = 2
    /\ activity_security_cache[SEC_2B] = SEC_2B

\* the upstream amount of a position's totalValue or bookValue, 0 when absent
UpstreamAmount(position, field) == Get(Get(position, field, EmptyDict), "amount", 0)

\* C10: every PositionData get_assets_data returns, in every mode, has
\* pnl = market_value - book_value, and pnl_pct = pnl / book_value * 100 when
\* book_value is not 0 and 0 when it is; in the aggregated unfiltered view
\* market_value and book_value are the upstream amounts (0 when absent).
C10_PnlInvariant ==
    report_out.fn = "assets" =>
        /\ \A i \in DOMAIN report_out.result :
               LET p == report_out.result[i]
               IN  /\ p.pnl = p.market_value - p.book_value
                   /\ p.pnl_pct.den # 0
                   /\ p.book_value # 0 =>
                          p.pnl_pct.num * p.book_value = p.pnl * 100 * p.pnl_pct.den
                   /\ p.book_value = 0 => p.pnl_pct.num = 0
        /\ ~report_out.by_account /\ report_out.pnl_filter = "none" =>
               \A i \in DOMAIN report_out.result :
                   /\ report_out.result[i].market_value =
                          UpstreamAmount(ScopedPositions[i], "totalValue")
                   /\ report_out.result[i].book_value =
                          UpstreamAmount(ScopedPositions[i], "bookValue")

\* a by-account report of the profitable positions holding one with a book
\* value and a gain and one without a book value but with a market value
C10_Witness ==
    /\ report_out.fn = "assets"
    /\ report_out.by_account
    /\ report_out.pnl_filter = "profit"
    /\ \E i, j \in DOMAIN report_out.result :
           /\ report_out.result[i].book_value = 0
           /\ report_out.result[i].market_value # 0
           /\ report_out.result[j].book_value # 0
           /\ report_out.result[j].pnl # 0

\* what the same call returns when no filter is asked for
Unfiltered ==
    get_assets_data(world, report_out.account_id, report_out.by_account,
                    report_out.currency, "none").result

\* what the same call returns under the other of the two filters
OppositeFiltered ==
    get_assets_data(world, report_out.account_id, report_out.by_account,
                    report_out.currency,
                    IF report_out.pnl_filter = "profit" THEN "loss" ELSE "profit").result

\* the number of (account, position) pairs a by-account report lists
OwnershipCount ==
    Cardinality({ai \in (DOMAIN world.accounts) \X (DOMAIN ScopedPositions) :
                    /\ report_out.account_id # NoAccount =>
                           world.accounts[ai[1]].id = report_out.account_id
                    /\ OwnedBy(ScopedPositions[ai[2]], world.accounts[ai[1]].id)})

\* the records of a sequence, as a set
Records(seq) == {seq[i] : i \in DOMAIN seq}

\* C11: get_assets_data with pnl_filter 'profit' returns exactly the positions
\* with pnl > 0, with 'loss' exactly those with pnl < 0 and without a filter
\* all of them, each in the unfiltered order; a position with pnl = 0 is in
\* neither filtered result and no position is in both.
C11_PnlFilterExact ==
    report_out.fn = "assets" =>
        \A all \in {Unfiltered} :
            /\ report_out.pnl_filter = "profit" =>
                   /\ report_out.result = SelectSeq(all, LAMBDA p : p.market_value > p.book_value)
                   /\ \A p \in Records(report_out.result) : p.pnl > 0
            /\ report_out.pnl_filter = "loss" =>
                   /\ report_out.result = SelectSeq(all, LAMBDA p : p.market_value < p.book_value)
                   /\ \A p \in Records(report_out.result) : p.pnl < 0
            /\ report_out.pnl_filter \in {"profit", "loss"} =>
                   /\ \A p \in Records(all) : p.pnl = 0 => p \notin Records(report_out.result)
                   /\ Records(report_out.result) \cap Records(OppositeFiltered) = {}
            /\ report_out.pnl_filter = "none" =>
                   Len(report_out.result) =
                       IF report_out.by_account THEN OwnershipCount
                       ELSE Len(ScopedPositions)

\* a profit report on positions of which one gained, and one neither gained
\* nor lost and is left out
C11_Witness ==
    /\ report_out.fn = "assets"
    /\ report_out.pnl_filter = "profit"
    /\ ~report_out.by_account
    /\ Len(report_out.result) = 1
    /\ Len(ScopedPositions) = 2
    /\ \E i \in DOMAIN ScopedPositions :
           /\ UpstreamAmount(ScopedPositions[i], "totalValue") # 0
           /\ UpstreamAmount(ScopedPositions[i], "totalValue") =
                  UpstreamAmount(ScopedPositions[i], "bookValue")

(***************************************************************************)
(* Properties of what is printed                                           *)
(***************************************************************************)

\* the index of the first ch in s, 0 when there is none
IndexOf(s, ch) ==
    IF \E i \in DOMAIN s : s[i] = ch
    THEN CHOOSE i \in DOMAIN s : s[i] = ch /\ \A j \in 1..(i - 1) : s[j] # ch
    ELSE 0

\* json.loads of a number that stands for a whole amount
float_of(text) ==
    LET negative == text # <<>> /\ text[1] = "-"
        unsigned == IF negative THEN Tail(text) ELSE text
        whole == SubSeq(unsigned, 1, IndexOf(unsigned, ".") - 1)
    IN  IF negative THEN -DecimalOf(whole) ELSE DecimalOf(whole)

\* json.loads of a number that stands for a quotient
ratio_of(text) ==
    LET negative == text # <<>> /\ text[1] = "-"
        unsigned == IF negative THEN Tail(text) ELSE text
        bar == IndexOf(unsigned, "/")
        n == DecimalOf(SubSeq(unsigned, 1, bar - 1))
    IN  [num |-> IF negative THEN -n ELSE n,
         den |-> DecimalOf(SubSeq(unsigned, bar + 1, Len(unsigned)))]

\* the sum of one field over a sequence of records
RECURSIVE FieldSum(_, _)
FieldSum(seq, field) ==
    IF seq = <<>> THEN 0 ELSE Head(seq)[field] + FieldSum(Tail(seq), field)

\* whether the figures t (total_value, total_pnl, total_pnl_pct and, where the
\* routine gives it, total_book) follow the aggregation rule for data
FollowsRule(t, data) ==
    LET value == FieldSum(data, "market_value")
        book == FieldSum(data, "book_value")
    IN  /\ t.total_value = value
        /\ "total_book" \in DOMAIN t => t.total_book = book
        /\ t.total_pnl = value - book
        /\ t.total_pnl_pct.den # 0
        /\ book # 0 => t.total_pnl_pct.num * book = (value - book) * 100 * t.total_pnl_pct.den
        /\ book = 0 => t.total_pnl_pct.num = 0

\* the totals line of a table block
TotalsLine(block) == CHOOSE l \in Range(block.lines) : l.kind = "totals"

\* the figures of a totals line
TableTotals(block) ==
    [total_value |-> TotalsLine(block).total_value,
     total_pnl |-> TotalsLine(block).total_pnl,
     total_pnl_pct |-> TotalsLine(block).total_pnl_pct]

\* the figures read back from the totals object of a JSON document
JsonTotals(doc) ==
    [total_value |-> float_of(doc.totals.market_value.text),
     total_book |-> float_of(doc.totals.book_value.text),
     total_pnl |-> float_of(doc.totals.pnl.text),
     total_pnl_pct |-> ratio_of(doc.totals.pnl_pct.text)]

\* the figures read back from the TOTAL row of a CSV document
CsvTotals(doc) ==
    LET cells == doc.rows[Len(doc.rows)].cells
    IN  [total_value |-> float_of(cells[4]), total_book |-> float_of(cells[5]),
         total_pnl |-> float_of(cells[7]), total_pnl_pct |-> ratio_of(cells[8])]

\* the totals of the block a print_assets call printed last
PrintedTotals ==
    LET block == printed.out[Len(printed.out)]
    IN  IF block.format = "json" THEN JsonTotals(block)
        ELSE IF block.format = "csv" THEN CsvTotals(block)
        ELSE TableTotals(block)

\* C12: for every non-empty position sequence the totals of the table
\* renderer, of the JSON totals object read back, of the CSV TOTAL row and of
\* the Grand Total routine all follow the aggregation rule (total market value
\* and total book are the sums, total pnl their difference, total pnl_pct =
\* total pnl / total book * 100, or 0 when total book is 0), so they agree;
\* the totals a print_assets call printed are these figures.
C12_TotalsAgree ==
    (printed.fn = "print_assets" /\ printed.data # <<>>) =>
        /\ FollowsRule(TableTotals(TableFormatter_format_positions(printed.data, TRUE, None)),
                       printed.data)
        /\ FollowsRule(JsonTotals(JsonFormatter_format_positions(printed.data, TRUE, None)),
                       printed.data)
        /\ FollowsRule(CsvTotals(CsvFormatter_format_positions(printed.data, TRUE, None)),
                       printed.data)
        /\ FollowsRule(assets_calculate_position_totals(printed.data), printed.data)
        /\ FollowsRule(PrintedTotals, printed.data)

\* a JSON report of two positions with a total book value and a total loss
C12_Witness ==
    /\ printed.fn = "print_assets"
    /\ printed.output_format = STR_JSON
    /\ Len(printed.data) = 2
    /\ FieldSum(printed.data, "book_value") > FieldSum(printed.data, "market_value")
    /\ FieldSum(printed.data, "market_value") > 0

\* the labels of a view-model sequence, each once, in the order in which each
\* first appears
RECURSIVE FirstAppearance(_)
FirstAppearance(data) ==
    IF data = <<>> THEN <<>>
    ELSE LET before == FirstAppearance(SubSeq(data, 1, Len(data) - 1))
             label == data[Len(data)].account_label
         IN  IF \E i \in DOMAIN before : before[i] = label THEN before
             ELSE Append(before, label)

\* whether the last call printed a report grouped by account
GroupedReport ==
    /\ printed.data # <<>>
    /\ printed.output_format = STR_TABLE
    /\ \/ printed.fn = "print_assets" /\ printed.by_account
       \/ printed.fn = "print_activities" /\ printed.account_id = NoAccount

\* the blocks of a grouped report that are groups (the last block is the
\* grand total or the closing line)
GroupBlocks == SubSeq(printed.out, 1, Len(printed.out) - 1)

\* the label a group block is headed by, None when it has no account line
HeadedBy(block) ==
    IF \E l \in Range(block.lines) : l.kind = "account"
    THEN (CHOOSE l \in Range(block.lines) : l.kind = "account").label
    ELSE None

\* the line a record is printed as
LineOf(record) ==
    IF printed.fn = "print_assets" THEN TableFormatter_format_position_row(record)
    ELSE ActivityRow(record)

\* C13: in the grouped table reports (by-account positions, multi-account
\* activities) the account groups are printed in the order in which each
\* account_label first appears in the view-model sequence, each label forming
\* one group whose records keep their relative order.
C13_GroupsInFirstAppearanceOrder ==
    GroupedReport =>
        /\ [g \in DOMAIN GroupBlocks |-> HeadedBy(GroupBlocks[g])]
               = FirstAppearance(printed.data)
        /\ \A g \in DOMAIN GroupBlocks :
               SelectSeq(GroupBlocks[g].lines, LAMBDA l : l.kind = "row")
                   = LET own == SelectSeq(printed.data,
                                          LAMBDA r : r.account_label = HeadedBy(GroupBlocks[g]))
                     IN  [i \in DOMAIN own |-> LineOf(own[i])]

\* the distinct elements of a sequence are as many as its length
AllDifferent(seq) == \A i, j \in DOMAIN seq : seq[i] = seq[j] => i = j

\* the sum of one figure over the totals lines of the group blocks
RECURSIVE AccountTotalsSum(_, _)
AccountTotalsSum(blocks, figure) ==
    IF blocks = <<>> THEN 0
    ELSE TotalsLine(Head(blocks))[figure] + AccountTotalsSum(Tail(blocks), figure)

OwnRecords(block) ==
    SelectSeq(printed.data, LAMBDA r : r.account_label = HeadedBy(block))

\* C15: every totals row produced from a non-empty sequence (the accounts
\* table Total row; the positions Total, Account Total and Grand Total rows;
\* the JSON totals.currency; the CSV TOTAL row) shows the currency of the
\* first item of the sequence it totals, and its amount is the plain sum of
\* the items' amounts whatever their currencies.
C15_TotalsCurrencyOfFirst ==
    printed.data # <<>> =>
        LET last == printed.out[Len(printed.out)]
        IN  /\ (printed.fn = "print_accounts" /\ printed.output_format = STR_TABLE) =>
                   /\ TotalsLine(last).currency = printed.data[1].currency
                   /\ TotalsLine(last).total_value = FieldSum(printed.data, "value")
            /\ (printed.fn = "print_assets" /\ printed.output_format = STR_TABLE) =>
                   /\ TotalsLine(last).currency = printed.data[1].currency
                   /\ TotalsLine(last).total_value = FieldSum(printed.data, "market_value")
                   /\ printed.by_account =>
                          \A g \in DOMAIN GroupBlocks :
                              /\ TotalsLine(GroupBlocks[g]).currency =
                                     OwnRecords(GroupBlocks[g])[1].currency
                              /\ TotalsLine(GroupBlocks[g]).total_value =
                                     FieldSum(OwnRecords(GroupBlocks[g]), "market_value")
            /\ (printed.fn = "print_assets" /\ printed.output_format = STR_JSON) =>
                   /\ last.totals.currency.text = printed.data[1].currency
                   /\ float_of(last.totals.market_value.text) =
                          FieldSum(printed.data, "market_value")
            /\ (printed.fn = "print_assets" /\ printed.output_format = STR_CSV) =>
                   /\ last.rows[Len(last.rows)].cells[6] = printed.data[1].currency
                   /\ float_of(last.rows[Len(last.rows)].cells[4]) =
                          FieldSum(printed.data, "market_value")

(***************************************************************************)
(* Properties of the activity view models                                  *)
(***************************************************************************)

\* C16: every ActivityData get_activities_data returns has amount >= 0, the
\* amount being a magnitude, also for a raw activity whose amount is negative
\* or absent.
C16_AmountIsMagnitude ==
    report_out.fn = "activities" =>
        \A i \in DOMAIN report_out.result : report_out.result[i].amount >= 0

\* the raw activities of one account a call is to report: the dividends when
\* only those are asked for, cut to the limit
RawReported(account_id) ==
    LET raw == world.activities[account_id]
        kept == IF report_out.dividends_only
                THEN SelectSeq(raw, LAMBDA a : is_dividend_activity(a))
                ELSE raw
    IN  SubSeq(kept, 1, IF Len(kept) < report_out.limit THEN Len(kept) ELSE report_out.limit)

\* '<description> (<number>)' of a raw account
LabelOfAccount(account) == account.description \o <<" ", "(">> \o account.number \o <<")">>

\* the raw activities behind the records of a report, in upstream account
\* order and then upstream activity order, each with the account it is of (no
\* account in single-account mode)
RECURSIVE SourcesOfAccounts(_)
SourcesOfAccounts(accounts) ==
    IF accounts = <<>> THEN <<>>
    ELSE [i \in DOMAIN RawReported(Head(accounts).id) |->
             [raw |-> RawReported(Head(accounts).id)[i], of |-> <<Head(accounts)>>]]
         \o SourcesOfAccounts(Tail(accounts))

Sources ==
    IF report_out.account_id # NoAccount
    THEN [i \in DOMAIN RawReported(report_out.account_id) |->
             [raw |-> RawReported(report_out.account_id)[i], of |-> <<>>]]
    ELSE SourcesOfAccounts(world.accounts)

STR_PLUS == "+"

STR_MINUS == "-"

\* C17: for every raw activity, ActivityData.sign is '+' exactly when the raw
\* amountSign is 'positive' and '-' in every other case, an absent amountSign
\* included; it is one of the two and does not follow the amount.
C17_SignFromIndicator ==
    report_out.fn = "activities" =>
        /\ Len(report_out.result) = Len(Sources)
        /\ \A i \in DOMAIN report_out.result :
               LET raw == Sources[i].raw
                   given == "amountSign" \in DOMAIN raw
               IN  /\ report_out.result[i].sign \in {STR_PLUS, STR_MINUS}
                   /\ report_out.result[i].sign = STR_PLUS <=>
                          (given /\ raw.amountSign = STR_POSITIVE)
                   /\ (~given \/ raw.amountSign # STR_POSITIVE) =>
                          report_out.result[i].sign = STR_MINUS

\* a report holding a '+' record, a '-' record of a positive amount, and a
\* '-' record of an activity without amountSign and without amount
C17_Witness ==
    /\ report_out.fn = "activities"
    /\ report_out.account_id = NoAccount
    /\ \E i, j, k \in DOMAIN report_out.result :
           /\ report_out.result[i].sign = STR_PLUS
           /\ report_out.result[j].sign = STR_MINUS /\ report_out.result[j].amount > 0
           /\ report_out.result[k].sign = STR_MINUS
           /\ "amountSign" \notin DOMAIN Sources[k].raw
           /\ "amount" \notin DOMAIN Sources[k].raw

\* the amount and the currency of a raw activity, 0 and CAD when absent
RawActivityAmount(raw) == IF "amount" \in DOMAIN raw THEN raw.amount ELSE 0

RawActivityCurrency(raw) == IF "currency" \in DOMAIN raw THEN raw.currency ELSE STR_CAD

\* C18: get_activities_data called with an account_id returns only records
\* without account_label and fetches the activities of that account only;
\* called without one, every record carries the label '<description>
\* (<number>)' of the account its activity came from, and the records are in
\* upstream account order, then upstream activity order.
C18_LabelsAndOrder ==
    report_out.fn = "activities" =>
        /\ Len(report_out.result) = Len(Sources)
        /\ \A i \in DOMAIN report_out.result :
               /\ report_out.result[i].amount = RawActivityAmount(Sources[i].raw)
               /\ report_out.result[i].currency = RawActivityCurrency(Sources[i].raw)
               /\ report_out.result[i].account_label =
                      IF Sources[i].of = <<>> THEN None
                      ELSE LabelOfAccount(Sources[i].of[1])
        /\ report_out.account_id # NoAccount =>
               /\ report_out.fetched = <<report_out.account_id>>
               /\ \A i \in DOMAIN report_out.result :
                      report_out.result[i].account_label = None
        /\ report_out.account_id = NoAccount =>
               /\ report_out.fetched = [a \in DOMAIN world.accounts |-> world.accounts[a].id]
               /\ \A i \in DOMAIN report_out.result :
                      report_out.result[i].account_label # None

\* an all-accounts report of two accounts whose first record is of the first
\* account and whose last is of the second, the two differing
C18_Witness ==
    /\ report_out.fn = "activities"
    /\ report_out.account_id = NoAccount
    /\ Len(world.accounts) = 2
    /\ Len(report_out.result) >= 2
    /\ report_out.result[1].account_label = LabelOfAccount(world.accounts[1])
    /\ report_out.result[Len(report_out.result)].account_label =
           LabelOfAccount(world.accounts[2])
    /\ report_out.result[1].amount # report_out.result[Len(report_out.result)].amount

\* the first n characters of s, all of s when it has fewer
FirstChars(s, n) == SubSeq(s, 1, IF Len(s) < n THEN Len(s) ELSE n)

\* the description of a raw activity after the identifiers in it are replaced,
\* before it is cut: what _enhance_description gives with the names this
\* call has looked up
Untruncated(raw) == _enhance_description(world, raw, activity_security_cache).ret

RawType(raw) == IF "type" \in DOMAIN raw THEN raw.type ELSE STR_NA

\* C19: every ActivityData of get_activities_data has an activity_type of at
\* most 14 characters and a description of at most 34, the description cut
\* after the security identifiers are replaced, each the prefix of that length
\* of the value before it was cut; every PositionData name has at most 30
\* characters.
C19_Truncation ==
    /\ report_out.fn = "activities" =>
           /\ Len(report_out.result) = Len(Sources)
           /\ \A i \in DOMAIN report_out.result :
                  /\ Len(report_out.result[i].activity_type) <= 14
                  /\ report_out.result[i].activity_type =
                         FirstChars(RawType(Sources[i].raw), 14)
                  /\ Len(report_out.result[i].description) <= 34
                  /\ report_out.result[i].description =
                         FirstChars(Untruncated(Sources[i].raw), 34)
    /\ report_out.fn = "assets" =>
           \A i \in DOMAIN report_out.result : Len(report_out.result[i].name) <= 30

\* a report with a type cut to 14 characters and a description that is within
\* 34 characters upstream and is cut because the name put in is longer
C19_Witness ==
    /\ report_out.fn = "activities"
    /\ \E i, j \in DOMAIN report_out.result :
           /\ Len(RawType(Sources[i].raw)) > 14
           /\ Len(report_out.result[i].activity_type) = 14
           /\ Len(Sources[j].raw.description) <= 34
           /\ Len(Untruncated(Sources[j].raw)) > 34
           /\ Len(report_out.result[j].description) = 34
           /\ ~LookupRaises(SEC_2B)

\* four digits, a dash, two digits, a dash, two digits
IsYmdForm(s) ==
    /\ Len(s) = 10
    /\ \A i \in {1, 2, 3, 4, 6, 7, 9, 10} : s[i] \in Digits
    /\ s[5] = "-" /\ s[8] = "-"

\* C20: every ActivityData.date of get_activities_data is a date of the form
\* YYYY-MM-DD or the literal 'N/A', whatever the raw occurredAt string, one
\* that is no ISO-8601 timestamp included.
C20_DateForm ==
    report_out.fn = "activities" =>
        \A i \in DOMAIN report_out.result :
            \/ IsYmdForm(report_out.result[i].date)
            \/ report_out.result[i].date = STR_NA

(***************************************************************************)
(* Properties of the report drivers                                        *)
(***************************************************************************)

\* the keys get_formatter maps to the Table renderer
MapsToTable(format_type) == lower(format_type) \notin {STR_JSON, STR_CSV}

\* what the same call prints when it is given output_format='table'
PrintedAsTable ==
    CASE printed.fn = "print_accounts" ->
             print_accounts(world, printed.show_zero_balances, printed.liquid_only,
                            printed.not_liquid, STR_TABLE).out
      [] printed.fn = "print_activities" ->
             print_activities(world, printed.account_id, printed.dividends_only,
                              printed.limit, STR_TABLE).out
      [] printed.fn = "print_assets" ->
             print_assets(world, printed.account_id, printed.by_account,
                          printed.currency, STR_TABLE, printed.pnl_filter).out
      [] OTHER -> <<>>

\* C21: a print_* call whose output_format get_formatter maps to the Table
\* renderer (an unrecognized key, or 'table' in another letter case) prints
\* exactly what the same call prints with output_format='table', in
\* multi-account activities mode and in by-account positions mode too.
C21_UnknownFormatPrintsAsTable ==
    (printed.fn # "none" /\ ~printed.raised /\ MapsToTable(printed.output_format))
        => printed.out = PrintedAsTable

\* what get_*_data hands the driver of the command that was run
Transformed ==
    CASE printed.fn = "print_accounts" ->
             [raised |-> FALSE,
              result |-> get_accounts_data(world, printed.show_zero_balances,
                                           printed.liquid_only, printed.not_liquid).result]
      [] printed.fn = "print_activities" ->
             TheOnly({[raised |-> got.raised, result |-> got.result] :
                      got \in {get_activities_data(world, printed.account_id,
                                                   printed.dividends_only, printed.limit)}})
      [] printed.fn = "print_assets" ->
             TheOnly({[raised |-> got.raised, result |-> got.result] :
                      got \in {get_assets_data(world, printed.account_id, printed.by_account,
                                               printed.currency, printed.pnl_filter)}})
      [] OTHER -> [raised |-> TRUE, result |-> <<>>]

\* the message of each driver
EmptyMessage ==
    CASE printed.fn = "print_accounts" -> "No accounts found."
      [] printed.fn = "print_activities" -> "No activities found."
      [] printed.fn = "print_assets" -> "No positions found."
      [] OTHER -> ""

\* C22: when the transformed sequence is empty (nothing upstream, or all of
\* it filtered out), each print_* call prints exactly its own message, in
\* every output format, returns without raising and never reaches a
\* formatter.
C22_EmptyPrintsMessage ==
    (printed.fn # "none" /\ ~Transformed.raised /\ Transformed.result = <<>>)
        => /\ printed.out = <<[format |-> "message", text |-> EmptyMessage]>>
           /\ ~printed.raised
           /\ printed.formatter = "none"

\* accounts upstream, all filtered out, and JSON asked for
C22_Witness ==
    /\ printed.fn = "print_accounts"
    /\ world.accounts # <<>>
    /\ printed.data = <<>>
    /\ printed.output_format = STR_JSON
    /\ printed.out = <<[format |-> "message", text |-> "No accounts found."]>>

(***************************************************************************)
(* Properties of the formatters                                            *)
(***************************************************************************)

\* the sentinel text of each Table method
SentinelText ==
    CASE printed.fn = "format_accounts" -> "No accounts found."
      [] printed.fn = "format_activities" -> "No activities found."
      [] printed.fn = "format_positions" -> "No positions found."
      [] OTHER -> ""

\* the array of a JSON document that is no envelope
JsonArray(doc) ==
    CASE printed.fn = "format_accounts" -> doc.accounts
      [] printed.fn = "format_activities" -> doc.activities
      [] OTHER -> doc.positions

FormatterCalled == printed.fn \in {"format_accounts", "format_activities", "format_positions"}

\* C23: on the empty sequence every formatter method returns: Table its
\* sentinel text, JSON the bare empty array (for format_positions even when
\* show_totals is true), CSV the empty string without a header row; and
\* JsonFormatter.format_positions emits the positions/totals envelope if
\* and only if show_totals is true and the sequence is not empty.
C23_FormattersOnEmpty ==
    FormatterCalled =>
        LET block == printed.out[1]
        IN  /\ Len(printed.out) = 1
            /\ (printed.data = <<>> /\ printed.formatter = "TableFormatter")
                   => block = [format |-> "message", text |-> SentinelText]
            /\ (printed.data = <<>> /\ printed.formatter = "JsonFormatter")
                   => /\ block.format = "json"
                      /\ ~block.envelope
                      /\ JsonArray(block) = <<>>
            /\ (printed.data = <<>> /\ printed.formatter = "CsvFormatter")
                   => block = [format |-> "csv", rows |-> <<>>]
            /\ (printed.fn = "format_positions" /\ printed.formatter = "JsonFormatter")
                   => (block.envelope <=> (printed.show_totals /\ printed.data # <<>>))

\* JsonFormatter.format_positions was given the empty sequence with
\* show_totals true
C23_Witness ==
    /\ printed.fn = "format_positions"
    /\ printed.formatter = "JsonFormatter"
    /\ printed.show_totals
    /\ printed.data = <<>>
    /\ printed.out = <<[format |-> "json", envelope |-> FALSE, positions |-> <<>>]>>

(***************************************************************************)
(* Properties of the transforms on incomplete records                      *)
(***************************************************************************)

\* whether the key path leads to a value in a raw record
RECURSIVE Present(_, _)
Present(d, path) ==
    \/ path = <<>>
    \/ /\ Head(path) \in DOMAIN d
       /\ Present(d[Head(path)], Tail(path))

NetLiquidationPath == <<"financials", "currentCombined", "netLiquidationValue">>

\* the raw records behind the view models of a call that filters nothing:
\* the i-th view model is made from the i-th record
PrintedUnfiltered ==
    \/ /\ printed.fn = "print_accounts"
       /\ printed.show_zero_balances /\ ~printed.liquid_only /\ ~printed.not_liquid
    \/ /\ printed.fn = "print_activities"
       /\ printed.account_id = "acc-1" /\ ~printed.dividends_only
    \/ /\ printed.fn = "print_assets"
       /\ printed.account_id = NoAccount /\ ~printed.by_account
       /\ printed.pnl_filter = "none"

RawPrinted ==
    CASE printed.fn = "print_accounts" -> world.accounts
      [] printed.fn = "print_activities" -> world.activities["acc-1"]
      [] printed.fn = "print_assets" -> world.positions
      [] OTHER -> <<>>

\* the defaults of an account, of an activity and of a position, the
\* position's currency default being default_currency
DefaultsHold(default_currency) ==
    PrintedUnfiltered =>
        /\ ~printed.raised
        /\ Len(printed.data) <= Len(RawPrinted)
        /\ printed.fn # "print_activities" => Len(printed.data) = Len(RawPrinted)
        /\ \A i \in DOMAIN printed.data :
               LET raw == RawPrinted[i]
                   view == printed.data[i]
               IN  CASE printed.fn = "print_accounts" ->
                            /\ ~Present(raw, NetLiquidationPath \o <<"amount">>)
                                   => view.value = 0
                            /\ ~Present(raw, NetLiquidationPath \o <<"currency">>)
                                   => view.currency = STR_CAD
                     [] printed.fn = "print_activities" ->
                            /\ ~Present(raw, <<"amount">>) => view.amount = 0
                            /\ ~Present(raw, <<"currency">>) => view.currency = STR_CAD
                     [] OTHER ->
                            /\ ~Present(raw, <<"totalValue", "amount">>)
                                   => view.market_value = 0
                            /\ ~Present(raw, <<"bookValue", "amount">>)
                                   => view.book_value = 0
                            /\ ~Present(raw, <<"totalValue", "currency">>)
                                   => view.currency = default_currency
                            /\ ~Present(raw, <<"security", "id">>)
                                   => /\ view.symbol = STR_NA
                                      /\ view.name = STR_UNKNOWN
                                      /\ \A k \in DOMAIN printed.calls :
                                             printed.calls[k] # EmptyStr

\* C24 as stated: a raw record with an absent optional field never makes the
\* transform raise and yields the default: value 0 and currency 'CAD' for an
\* account; amount 0 and currency 'CAD' for an activity; 0 for a position's
\* absent totalValue or bookValue amount, currency 'CAD' for its absent value
\* currency, and symbol 'N/A' and name 'Unknown' with no market-data call
\* for its absent security identifier.
C24_DefaultsWithCAD == DefaultsHold(STR_CAD)

\* C24, amended: the same, but a position without a value currency gets the
\* currency argument of the call, which is 'CAD' when the caller passes none.
C24_DefaultsWithCurrencyArgument ==
    DefaultsHold(IF printed.fn = "print_assets" THEN printed.currency ELSE STR_CAD)

\* a position without a value currency and without a security identifier
\* was printed by a call that asked for US dollars
C24_Witness ==
    /\ printed.fn = "print_assets"
    /\ PrintedUnfiltered
    /\ printed.currency = STR_USD
    /\ \E i \in DOMAIN printed.data :
           /\ ~Present(world.positions[i], <<"totalValue", "currency">>)
           /\ ~Present(world.positions[i], <<"security", "id">>)
           /\ ~Present(world.positions[i], <<"totalValue", "amount">>)
           /\ printed.data[i].currency = STR_USD
           /\ printed.data[i].symbol = STR_NA
           /\ printed.data[i].market_value = 0

(***************************************************************************)
(* Properties of the commands                                              *)
(***************************************************************************)

\* whether the k-th fetch of the command that was run raised
FetchRaised(k) ==
    LET f == printed.fetches[k]
    IN  \/ f.capability = "get_accounts" /\ world.raises.get_accounts
        \/ f.capability = "get_identity_positions" /\ world.raises.get_identity_positions
        \/ f.capability = "get_activities" /\ f.account_id \in world.raises.get_activities

CommandRun == printed.fn \in {"list", "activities", "assets"}

\* what a command fetches: "accounts" for the list command
WhatFetched == IF printed.fn = "list" THEN "accounts" ELSE printed.fn

\* C25: if get_accounts, get_activities or get_identity_positions raises
\* during a report, no fetch is called after it (no retry), nothing of the
\* report is printed (the exception leaves get_*_data and print_*), and
\* the command prints 'Error fetching ...' and exits with code 1.
C25_FetchFailureEndsCommand ==
    CommandRun =>
        \A k \in DOMAIN printed.fetches :
            FetchRaised(k) =>
                /\ k = Len(printed.fetches)
                /\ printed.raised
                /\ printed.out = <<ErrorFetching(WhatFetched)>>
                /\ printed.exit_code = 1

\* the activities command ran over two accounts; the fetch of the first
\* account's activities, which are not empty, went through and the fetch
\* for the second account raised
C25_Witness ==
    /\ printed.fn = "activities"
    /\ Len(printed.fetches) = 3
    /\ FetchRaised(3)
    /\ printed.fetches[2].capability = "get_activities"
    /\ world.activities[printed.fetches[2].account_id] # <<>>
    /\ printed.exit_code = 1

(***************************************************************************)
(* Properties of get_authenticated_client                                  *)
(***************************************************************************)

\* get_authenticated_client has taken its branch: it returned the restored
\* client or it is in, or through, _perform_login
Decided == auth.pc \in {"login", "returned"}

\* the login flow was started: _perform_login was called
LoginStarted == Decided /\ ~(auth.restore.tried /\ auth.ret # None /\ auth.attempts = <<>>)

\* the session stored for the username was restored and its validation call
\* went through
SessionValid ==
    /\ auth.restore.tried
    /\ auth.restore.stored
    /\ auth.restore.outcome = "valid"

\* C26: get_authenticated_client never starts the login flow when
\* force_login is false and a stored session exists whose validation call
\* (get_accounts on the restored client) succeeds, and then returns that
\* restored client; it starts the login flow exactly when force_login is
\* true, no session is stored, or restoring or validating the session raises.
C26_LoginOnlyWithoutValidSession ==
    Decided =>
        /\ (~auth.force_login /\ SessionValid)
               => /\ auth.pc = "returned"
                  /\ auth.attempts = <<>>
                  /\ auth.restore.get_accounts = 1
                  /\ auth.ret = Client(auth.username, auth.keyring_at_start)
        /\ (auth.pc = "login" \/ auth.attempts # <<>>)
               <=> \/ auth.force_login
                   \/ ~TruthyLabel(auth.keyring_at_start.session[auth.username])
                   \/ /\ auth.restore.tried
                      /\ auth.restore.outcome # "valid"
        /\ auth.force_login => ~auth.restore.tried

\* a stored session was restored and validated, and the client returned
\* without a login
C26_Witness ==
    /\ auth.pc = "returned"
    /\ ~auth.force_login
    /\ SessionValid
    /\ auth.attempts = <<>>
    /\ auth.ret # None

(***************************************************************************)
(* Properties of _perform_login                                            *)
(***************************************************************************)

\* _perform_login has been entered
InLogin == Decided /\ LoginStarted

Attempts == IF InLogin THEN auth.attempts ELSE <<>>

LastOutcome == Attempts[Len(Attempts)].outcome

\* after an OTPRequired outcome of a pass that sent a password from
\* `passwords`, the next pass sends the same password without asking for it,
\* and sends the code that was typed
OTPKeepsPassword(passwords) ==
    \A i \in 1..(Len(Attempts) - 1) :
        (Attempts[i].outcome = "OTPRequiredException" /\ Attempts[i].password \in passwords)
            => /\ Attempts[i].prompted_otp
               /\ ~Attempts[i + 1].prompted_password
               /\ Attempts[i + 1].password = Attempts[i].password
               /\ Attempts[i + 1].otp_answer = Attempts[i].entered_otp

\* after an OTPRequired outcome of a pass that sent the empty password, the
\* next pass asks for the password again and sends the code that was typed
OTPWithEmptyPassword ==
    \A i \in 1..(Len(Attempts) - 1) :
        (Attempts[i].outcome = "OTPRequiredException" /\ Attempts[i].password = EmptyStr)
            => /\ Attempts[i].prompted_otp
               /\ Attempts[i + 1].prompted_password
               /\ Attempts[i + 1].otp_answer = Attempts[i].entered_otp

\* after a LoginFailed outcome the next pass asks for the password and sends
\* no code, and no code was asked for
LoginFailedDiscardsBoth ==
    \A i \in 1..(Len(Attempts) - 1) :
        Attempts[i].outcome = "LoginFailedException"
            => /\ ~Attempts[i].prompted_otp
               /\ Attempts[i + 1].prompted_password
               /\ Attempts[i + 1].otp_answer = None

\* any other exception, raised by the login call or after it, ends the
\* function with None
OtherExceptionReturnsNone ==
    \A i \in 1..Len(Attempts) :
        Attempts[i].outcome \in {"Exception", "logged in, session unreadable"}
            => /\ i = Len(Attempts)
               /\ auth.pc = "returned"
               /\ auth.ret = None
               /\ auth.keyring = auth.keyring_at_start

\* a client is returned, and last_email written, only after a login call
\* that raised nothing
ClientOnlyAfterLogin ==
    InLogin =>
        /\ (auth.pc = "returned" /\ auth.ret # None)
               => /\ LastOutcome = "logged in"
                  /\ auth.keyring.last_email = auth.username
                  /\ auth.ret = Client(auth.username, auth.keyring)
        /\ auth.keyring # auth.keyring_at_start
               => /\ Attempts # <<>>
                  /\ LastOutcome = "logged in"
                  /\ auth.pc = "returned"

\* the loop goes on after OTPRequired and LoginFailed, whatever the number of
\* passes so far, and ends after every other outcome
LoopEndsOnlyOnSuccessOrException ==
    InLogin =>
        /\ Attempts = <<>> => auth.pc = "login"
        /\ Attempts # <<>>
               => (auth.pc = "login"
                      <=> LastOutcome \in {"OTPRequiredException", "LoginFailedException"})
        /\ Attempts # <<>>
               => /\ Attempts[1].prompted_password
                  /\ Attempts[1].otp_answer = None

LoginLoop(passwords) ==
    /\ OTPKeepsPassword(passwords)
    /\ LoginFailedDiscardsBoth
    /\ OtherExceptionReturnsNone
    /\ ClientOnlyAfterLogin
    /\ LoopEndsOnlyOnSuccessOrException

\* C30 as stated: in _perform_login, for every sequence of login outcomes,
\* an OTPRequired outcome keeps the entered password, whatever it is, and
\* only prompts for an OTP before the next attempt; a LoginFailed outcome
\* discards both password and OTP so the next attempt re-prompts the password
\* and sends no OTP; any other exception makes the function return None; a
\* client is returned, and the last-used email written to the keyring, only
\* after a login call that raised nothing; the loop terminates only on
\* success or on an unexpected exception.
C30_LoginLoop == LoginLoop(EnteredPasswords)

\* C30, amended: the same, where an OTPRequired outcome keeps the entered
\* password only if that password is not empty; after an OTPRequired outcome
\* of an attempt with the empty password the next attempt prompts for the
\* password again, and still sends the OTP that was entered.
C30_LoginLoopNonEmptyPassword ==
    /\ LoginLoop(EnteredPasswords \ {EmptyStr})
    /\ OTPWithEmptyPassword

\* a login in three passes: OTP required, then a failure with the kept
\* password and the code, then success with a password typed again
C30_Witness ==
    /\ auth.pc = "returned"
    /\ auth.ret # None
    /\ Len(Attempts) = 3
    /\ Attempts[1].outcome = "OTPRequiredException"
    /\ Attempts[1].password = STR_SECRET
    /\ Attempts[2].outcome = "LoginFailedException"
    /\ ~Attempts[2].prompted_password
    /\ Attempts[2].otp_answer = STR_OTP
    /\ Attempts[3].outcome = "logged in"
    /\ Attempts[3].prompted_password
    /\ Attempts[3].otp_answer = None

(***************************************************************************)
(* Properties of the limit                                                 *)
(***************************************************************************)

\* the type or the description of a raw activity, upper-cased, contains one
\* of the three tokens
PassesDividendFilter(raw) ==
    \E field \in {"type", "description"} :
        /\ field \in DOMAIN raw
        /\ \E token \in {<<"D", "I", "Y", "_", "D", "I", "V", "I", "D", "E", "N", "D">>,
                         <<"D", "I", "V", "I", "D", "E", "N", "D">>,
                         <<"D", "I", "S", "T", "R", "I", "B", "U", "T", "I", "O", "N">>} :
               Contains(upper(raw[field]), token)

\* the upstream activities of an account that a call keeps, in upstream order
Passing(account_id) ==
    SelectSeq(world.activities[account_id],
              LAMBDA raw : ~report_out.dividends_only \/ PassesDividendFilter(raw))

\* the first `limit` of them
FirstPassing(account_id) == FirstChars(Passing(account_id), report_out.limit)

\* the accounts a call reports, in upstream order
RECURSIVE FirstPassingOfAll(_)
FirstPassingOfAll(account_ids) ==
    IF account_ids = <<>> THEN <<>>
    ELSE FirstPassing(Head(account_ids)) \o FirstPassingOfAll(Tail(account_ids))

ReportedAccountIds ==
    IF report_out.account_id # NoAccount THEN <<report_out.account_id>>
    ELSE [a \in DOMAIN world.accounts |-> world.accounts[a].id]

\* C27: for each account, the activities returned are the first `limit` (for
\* limit >= 0) of the upstream activities that pass the dividend filter, in
\* upstream order: with dividends_only the filter is applied before
\* truncation, so up to `limit` dividends are returned even if they lie beyond
\* the first `limit` raw activities; in all-accounts mode the limit applies to
\* each account separately, not to the whole report.
C27_LimitAfterFilterPerAccount ==
    (report_out.fn = "activities" /\ report_out.limit >= 0) =>
        LET expected == FirstPassingOfAll(ReportedAccountIds)
        IN  /\ ~report_out.raised
            /\ Len(report_out.result) = Len(expected)
            /\ \A i \in DOMAIN expected :
                   /\ report_out.result[i].amount = RawActivityAmount(expected[i])
                   /\ report_out.result[i].activity_type = FirstChars(RawType(expected[i]), 14)
            /\ report_out.dividends_only =>
                   \A i \in DOMAIN expected : PassesDividendFilter(expected[i])

\* an all-accounts report of dividends with limit 1: the first account's
\* only dividend comes after another activity, and each of the two accounts
\* gives one record
C27_Witness ==
    /\ report_out.fn = "activities"
    /\ report_out.account_id = NoAccount
    /\ report_out.dividends_only
    /\ report_out.limit = 1
    /\ Len(world.accounts) = 2
    /\ Len(world.activities["acc-1"]) = 2
    /\ ~PassesDividendFilter(world.activities["acc-1"][1])
    /\ PassesDividendFilter(world.activities["acc-1"][2])
    /\ Len(report_out.result) = 2
    /\ report_out.result[1].account_label # report_out.result[2].account_label

(***************************************************************************)
(* Properties of the account scoping of positions                          *)
(***************************************************************************)

\* the upstream quantity of a position, which tells the positions of the
\* pool apart
QuantityOf(position) == Get(position, "quantity", 0)

\* the accounts a by-account report lists: what get_accounts answered, cut
\* down to the account asked about if there is one
ListedAccounts ==
    IF report_out.account_id = NoAccount THEN world.accounts
    ELSE SelectSeq(world.accounts, LAMBDA a : a.id = report_out.account_id)

\* one (position, label) pair for each listed account and each upstream
\* position it owns, by account and then in upstream position order
RECURSIVE PairsOfAccounts(_)
PairsOfAccounts(accounts) ==
    IF accounts = <<>> THEN <<>>
    ELSE LET owned == SelectSeq(world.positions, LAMBDA p : OwnedBy(p, Head(accounts).id))
         IN  [i \in DOMAIN owned |->
                 [quantity |-> QuantityOf(owned[i]),
                  account_label |-> LabelOfAccount(Head(accounts))]]
             \o PairsOfAccounts(Tail(accounts))

\* the pairs a report is to hold when nothing is filtered out
ExpectedPairs ==
    IF report_out.by_account THEN PairsOfAccounts(ListedAccounts)
    ELSE [i \in DOMAIN ScopedPositions |->
             [quantity |-> QuantityOf(ScopedPositions[i]), account_label |-> None]]

ReportedPairs ==
    [i \in DOMAIN report_out.result |->
        [quantity |-> report_out.result[i].quantity,
         account_label |-> report_out.result[i].account_label]]

\* the listed accounts that own a position
ListedOwners(position) ==
    {a \in DOMAIN ListedAccounts : OwnedBy(position, ListedAccounts[a].id)}

\* how often a position is in the upstream list
Multiplicity(position) ==
    Cardinality({i \in DOMAIN world.positions : world.positions[i] = position})

\* C28: with an account_id, get_assets_data returns view models only for
\* positions whose owning-account set contains that id.  In by-account mode a
\* position appears under account A's label if and only if A is in the
\* fetched account list and A's id is in the position's owning-account set,
\* so a position owned by k listed accounts yields k separate records, each
\* keeping its own label, and a position owned by no listed account yields
\* none.
C28_AccountScoping ==
    report_out.fn = "assets" =>
        /\ ~report_out.raised
        /\ \A r \in Records(ReportedPairs) : r \in Records(ExpectedPairs)
        /\ report_out.pnl_filter = "none" =>
               /\ ReportedPairs = ExpectedPairs
               /\ report_out.by_account =>
                      \A p \in Records(world.positions) :
                          /\ Cardinality({i \in DOMAIN report_out.result :
                                             report_out.result[i].quantity = QuantityOf(p)})
                                 = Multiplicity(p) * Cardinality(ListedOwners(p))
                          /\ \A a \in DOMAIN ListedAccounts :
                                 a \in ListedOwners(p) <=>
                                     \E i \in DOMAIN report_out.result :
                                         /\ report_out.result[i].quantity = QuantityOf(p)
                                         /\ report_out.result[i].account_label =
                                                LabelOfAccount(ListedAccounts[a])
        /\ report_out.account_id # NoAccount =>
               \A i \in DOMAIN report_out.result :
                   \E p \in Records(world.positions) :
                       /\ QuantityOf(p) = report_out.result[i].quantity
                       /\ OwnedBy(p, report_out.account_id)

\* a by-account report of two accounts and two positions: one position both
\* accounts own, under two labels, and one the second account alone owns
C28_Witness ==
    /\ report_out.fn = "assets"
    /\ report_out.by_account
    /\ report_out.account_id = NoAccount
    /\ report_out.pnl_filter = "none"
    /\ Len(world.accounts) = 2
    /\ Len(world.positions) = 2
    /\ Len(report_out.result) = 3
    /\ \E i, j \in DOMAIN report_out.result :
           /\ report_out.result[i].quantity = report_out.result[j].quantity
           /\ report_out.result[i].account_label # report_out.result[j].account_label

(***************************************************************************)
(* Properties of _enhance_description                                      *)
(***************************************************************************)

\* the activity has a direct security reference: a non-empty identifier, or
\* a dict with a non-empty "id"
HasSecurityReference(activity) ==
    /\ "security" \in DOMAIN activity
    /\ \/ activity.security.kind = "str" /\ activity.security.value # EmptyStr
       \/ /\ activity.security.kind = "dict"
          /\ "id" \in DOMAIN activity.security.value
          /\ activity.security.value.id # EmptyStr

\* the text holds sec-, a lower-case letter, a dash and a hexadecimal digit
HasIdentifierPattern(s) ==
    \E i \in 1..(Len(s) - 6) :
        /\ SubSeq(s, i, i + 3) = <<"s", "e", "c", "-">>
        /\ s[i + 4] \in LowerLetters
        /\ s[i + 5] = "-"
        /\ s[i + 6] \in HexDigits

\* the description of a raw activity, N/A when it has none
RawDescriptionOf(activity) ==
    IF "description" \in DOMAIN activity THEN activity.description ELSE STR_NA

WithoutSecurity(activity) ==
    /\ ~HasSecurityReference(activity)
    /\ ~HasIdentifierPattern(RawDescriptionOf(activity))

\* C29: when an activity has no direct security reference and its description
\* contains no security-identifier pattern, _enhance_description returns the
\* description unchanged, makes no market-data call and leaves the cache
\* unchanged, for every activity type including DIY_BUY.
C29_NoSecurityNoEffect ==
    [][(resolved'.fn = "enhance" /\ WithoutSecurity(resolved'.activity))
           => /\ resolved'.ret = RawDescriptionOf(resolved'.activity)
              /\ ~resolved'.called
              /\ ~resolved'.raised
              /\ market_calls' = market_calls
              /\ cache' = cache]_vars

\* a DIY_BUY activity with a quantity in its text but no security, enhanced
\* after other calls had filled the cache and used the market-data capability
C29_Witness ==
    /\ resolved.fn = "enhance"
    /\ resolved.activity = ActivityPlainBuy
    /\ WithoutSecurity(resolved.activity)
    /\ resolved.ret = ActivityPlainBuy.description
    /\ cache # EmptyDict
    /\ \E i \in SecurityIds : market_calls[i] > 0

====
